---------------------------- MODULE Spec2Model ----------------------------
(***************************************************************************)
(* A model of the index hash table cache of src/src/index-hash-table.c.    *)
(*                                                                         *)
(* Memory is modelled at byte granularity: a key argument is the caller's  *)
(* buffer (a sequence of bytes that starts with the key_size bytes of the  *)
(* key and goes on with whatever memory follows it), an item of the pool   *)
(* is a sequence of item_size bytes, and 32 and 64 bit integers are        *)
(* little-endian byte sequences, so that the arithmetic of the hash keeps  *)
(* its width.                                                              *)
(***************************************************************************)
EXTENDS Integers, Sequences, FiniteSets, TLC

(***************************************************************************)
(* Fixed-width arithmetic on little-endian byte sequences.                 *)
(***************************************************************************)

\* a ^ b on 4-bit values, bit by bit.
XorNib ==
    [a \in 0..15 |-> [b \in 0..15 |->
        ((a + b) % 2)
        + 2 * (((a \div 2) + (b \div 2)) % 2)
        + 4 * (((a \div 4) + (b \div 4)) % 2)
        + 8 * (((a \div 8) + (b \div 8)) % 2)]]

\* a ^ b on bytes.
Xor8(a, b) == 16 * XorNib[a \div 16][b \div 16] + XorNib[a % 16][b % 16]

\* x ^ y on 32-bit integers.
Xor32(x, y) ==
    <<Xor8(x[1], y[1]), Xor8(x[2], y[2]), Xor8(x[3], y[3]), Xor8(x[4], y[4])>>

\* x ^ y on 64-bit integers.
Xor64(x, y) ==
    <<Xor8(x[1], y[1]), Xor8(x[2], y[2]), Xor8(x[3], y[3]), Xor8(x[4], y[4]),
      Xor8(x[5], y[5]), Xor8(x[6], y[6]), Xor8(x[7], y[7]), Xor8(x[8], y[8])>>

\* n zero bytes.
Zeros(n) == [i \in 1..n |-> 0]

\* The 64-bit integer of a non-negative int n < 2^31.
U64(n) ==
    <<n % 256, (n \div 256) % 256, (n \div 65536) % 256, n \div 16777216, 0, 0, 0, 0>>

\* x + y mod 2^64.
Add64(x, y) ==
    LET carry[i \in 0..8] ==
            IF i = 0 THEN 0 ELSE (x[i] + y[i] + carry[i - 1]) \div 256
        r(i) == (x[i] + y[i] + carry[i - 1]) % 256
    IN  <<r(1), r(2), r(3), r(4), r(5), r(6), r(7), r(8)>>

\* x * y mod 2^64 (schoolbook multiplication on byte limbs).
Mul64(x, y) ==
    LET col[i \in 1..8] ==
            LET part[j \in 0..i] ==
                    IF j = 0 THEN 0 ELSE part[j - 1] + x[j] * y[i + 1 - j]
            IN  part[i]
        carry[i \in 0..8] ==
            IF i = 0 THEN 0 ELSE (col[i] + carry[i - 1]) \div 256
    IN  [i \in 1..8 |-> (col[i] + carry[i - 1]) % 256]

\* x >> (8 * n) on a 64-bit integer.
Shr64Bytes(x, n) ==
    LET r(i) == IF i + n <= 8 THEN x[i + n] ELSE 0
    IN  <<r(1), r(2), r(3), r(4), r(5), r(6), r(7), r(8)>>

\* x >> 1 on a 32-bit integer.
Shr32Bit(x) ==
    <<(x[1] \div 2) + (x[2] % 2) * 128, (x[2] \div 2) + (x[3] % 2) * 128,
      (x[3] \div 2) + (x[4] % 2) * 128, x[4] \div 2>>

\* The bytes buf[from+1 .. from+n] of a buffer (memory at offset from).
Bytes(buf, from, n) == [i \in 1..n |-> buf[from + i]]

\* The int of the low 24 bits of a 32-bit integer (enough for any index mask
\* of the model: max_entries stays far below 2^24).
Low24(h) == h[1] + 256 * h[2] + 65536 * h[3]

(***************************************************************************)
(* Hashing: fast_key_hash and key_hash.                                    *)
(***************************************************************************)

\* 0x9e377989, little-endian.
KNUTH_GOLD_32 == <<137, 121, 55, 158>>

\* 0x9e3779b97f4a7c15, little-endian.
KNUTH_GOLD_64 == <<21, 124, 74, 127, 185, 121, 55, 158>>

\* The CRC32C polynomial 0x11EDC6F41 the crc32 instruction uses, bit-reflected
\* (0x82F63B78), little-endian.
CRC32C_POLY == <<120, 59, 246, 130>>

\* One step of the bitwise CRC: shift right, subtract the polynomial on carry.
CrcBit(c) ==
    IF c[1] % 2 = 1 THEN Xor32(Shr32Bit(c), CRC32C_POLY) ELSE Shr32Bit(c)

\* The CRC32C of the one-byte message i, for every byte i.
CrcTab ==
    [i \in 0..255 |->
        CrcBit(CrcBit(CrcBit(CrcBit(CrcBit(CrcBit(CrcBit(CrcBit(<<i, 0, 0, 0>>))))))))]

\* crc32 accumulating one byte.
CrcByte(crc, b) ==
    Xor32(CrcTab[Xor8(crc[1], b)], <<crc[2], crc[3], crc[4], 0>>)

\* _mm_crc32_u64(crc, v): the bytes v[i..8] of v, least significant first,
\* accumulated into crc.
RECURSIVE CrcBytes(_, _, _)
CrcBytes(crc, v, i) ==
    IF i > 8 THEN crc
    ELSE LET c == CrcByte(crc, v[i])
         IN  IF c[1] >= 0 THEN CrcBytes(c, v, i + 1) ELSE c

mm_crc32_u64(crc, v) == CrcBytes(crc, v, 1)

\* Reduce to 32 bit, mix high/low 16 bits: h ^= h >> 32; h ^= h >> 16; (uint32_t) h.
Reduce32(h) ==
    LET Mix(x, n) == Xor64(x, Shr64Bytes(x, n))
    IN  Bytes(Mix(Mix(h, 4), 2), 0, 4)

\* fast_key_hash(key) of a 16-byte IhtCacheFastKey {v0, v1}, with CRC32
\* instructions (crc) or without.
fast_key_hash(crc, key) ==
    LET v0 == <<key[1], key[2], key[3], key[4], key[5], key[6], key[7], key[8]>>
        v1 == <<key[9], key[10], key[11], key[12], key[13], key[14], key[15], key[16]>>
    IN  IF crc
        THEN mm_crc32_u64(mm_crc32_u64(KNUTH_GOLD_32, v0), v1)
        ELSE Reduce32(Mul64(Xor64(v0, Add64(v1, KNUTH_GOLD_64)), KNUTH_GOLD_64))

\* The loop of key_hash from lane i on, h being the hash so far:
\* h ^= lane; h *= KNUTH_GOLD_64 for each of the lanes.
RECURSIVE MixLanes(_, _, _, _)
MixLanes(h, key, i, lanes) ==
    IF i > lanes THEN h
    ELSE MixLanes(Mul64(Xor64(h, Bytes(key, 8 * (i - 1), 8)), KNUTH_GOLD_64),
                  key, i + 1, lanes)

\* The software hash of key_hash for keys longer than a fast key: the loop
\* mixes one 8-byte lane per step while pos < bytes, reading each lane whole
\* from the caller's memory; the tail is mixed when n_tail > 0.
soft_key_hash(bytes, key) ==
    LET lanes == (bytes + 7) \div 8
        pos == 8 * lanes
        n_tail == bytes - pos
        tail == [i \in 1..8 |-> IF i <= n_tail THEN key[pos + i] ELSE 0]
        MixTail(h) == IF n_tail > 0 THEN Mul64(Xor64(h, tail), KNUTH_GOLD_64) ELSE h
    IN  Reduce32(MixTail(MixLanes(Add64(KNUTH_GOLD_64, U64(bytes)), key, 1, lanes)))

(***************************************************************************)
(* Program constants.                                                      *)
(***************************************************************************)

MIN_CAPACITY == 16
MAX_EVICTION_SEARCH == 16

\* DEFAULT_LOAD_FACTOR 0.40; a load factor is a fraction <<numerator, denominator>>.
DEFAULT_LOAD_FACTOR == <<2, 5>>

SLOT_EMPTY == 0
SLOT_REMOVED == 1
SLOT_MIN_AGE == 2
SLOT_MAX_AGE == 7

\* New entries starting at the oldest age.
INITIAL_STATE_oldest == SLOT_MAX_AGE

\* static SlotState INITIAL_STATE = SLOT_MIN_AGE; nothing assigns it.
INITIAL_STATE == SLOT_MIN_AGE

\* sizeof(IhtCacheFastKey), sizeof(IhtCacheFastValue), sizeof(struct iht_item),
\* alignof(max_align_t) on x86_64.
FAST_KEY_SIZE == 16
FAST_VALUE_SIZE == 16
ITEM_STRUCT_SIZE == 32
MAX_ALIGN == 16

\* A null IhtEntry.
NULL == -1

\* x / y of C on ints: the quotient truncated toward zero.
CDiv(x, y) == IF x >= 0 THEN x \div y ELSE -((-x) \div y)

(***************************************************************************)
(* The cache object (struct iht_cache) and its accessors.                  *)
(***************************************************************************)

VARIABLES
    cache,      \* the struct iht_cache of the one cache of the model
    use_crc,    \* static bool use_crc
    last,       \* the last public call: its name, arguments and results
    live,       \* the (key, value) pairs stored and since neither overwritten nor evicted
    called,     \* the names of the operations called so far
    warm,       \* the keys of the calls of the warm-up prefix still to be made
    steps,      \* the number of calls made after the warm-up prefix
    na_given,   \* the na_value of the last ihtCacheSetNAValue (<<>>: null, or no call)
    borrow      \* the item the pointer of the last ihtCacheGet addresses, as it was then

vars == <<cache, use_crc, last, live, called, warm, steps, na_given, borrow>>

empty_slot(slot_state) == slot_state <= SLOT_REMOVED

is_slot_empty(c, entry_index) == empty_slot(c.states[entry_index])

is_slot_used(c, entry_index) == ~empty_slot(c.states[entry_index])

\* item_key / item_value: the key_size bytes at key_offset and the value_size
\* bytes at value_offset of the item.
item_key(c, item_index) == Bytes(c.items[item_index], c.key_offset, c.key_size)

\* item_value with the offset of the key for that of the value.
item_value_at_key(c, item_index) ==
    Bytes(c.items[item_index], c.key_offset, c.value_size)

item_value(c, item_index) == Bytes(c.items[item_index], c.value_offset, c.value_size)

\* memcmp(key1, key2, key_size) == 0.
key_equals(c, key1, key2) == \A i \in 1..c.key_size : key1[i] = key2[i]

\* ((k1.v0 ^ k2.v0) | (k1.v1 ^ k2.v1)) == 0 on two 16-byte fast keys.
fast_key_equals(key1, key2) == \A i \in 1..FAST_KEY_SIZE : key1[i] = key2[i]

next_entry(c, index) == (index + 1) % c.max_entries

\* bump_counter without the scans.
bump_counter_count_only(counter, scans) ==
    [count |-> counter.count + 1, scans |-> counter.scans]

bump_counter(counter, scans) ==
    [count |-> counter.count + 1, scans |-> counter.scans + scans]

\* touch_entry stepping the age down instead of up.
touch_entry_down(c, index) ==
    IF c.states[index] < SLOT_MAX_AGE
    THEN [c EXCEPT !.states[index] = @ - 1]
    ELSE c

\* touch_entry stepping the age up by two.
touch_entry_by_two(c, index) ==
    IF c.states[index] < SLOT_MAX_AGE
    THEN [c EXCEPT !.states[index] = @ + 2]
    ELSE c

touch_entry(c, index) ==
    IF c.states[index] < SLOT_MAX_AGE
    THEN [c EXCEPT !.states[index] = @ + 1]
    ELSE c

ZeroCounter == [count |-> 0, scans |-> 0]

\* struct iht_stats, zeroed.
ZeroStats ==
    [lookups |-> 0, hits |-> ZeroCounter, misses |-> ZeroCounter,
     adds |-> ZeroCounter, updates |-> ZeroCounter, evictions |-> ZeroCounter]

(***************************************************************************)
(* setup, allocate, remove_all.                                            *)
(***************************************************************************)

\* The largest int.
INT_MAX == 2147483647

\* ceil(capacity / max_load_factor) for the load factor num/den, computed
\* without a product above INT_MAX; TOO_BIG when it is above INT_MAX.
TOO_BIG == -1

CeilQuotient(capacity, max_load_factor) ==
    LET num == max_load_factor[1]
        den == max_load_factor[2]
        q == capacity \div num
        c == ((capacity % num) * den + num - 1) \div num
    IN  IF q > (INT_MAX - c) \div den THEN TOO_BIG ELSE q * den + c

\* (int) ceil(capacity / max_load_factor): the values min_entries may get.
\* The conversion of a double above INT_MAX is undefined: the cvttsd2si
\* instruction gives INT_MIN, the compiler's folding of a constant INT_MAX.
min_entries_of(c) ==
    LET capacity == IF c.min_capacity < MIN_CAPACITY THEN MIN_CAPACITY ELSE c.min_capacity
        ceiling == CeilQuotient(capacity, c.max_load_factor)
    IN  IF ceiling = TOO_BIG THEN {-INT_MAX - 1, INT_MAX} ELSE {ceiling}

\* (int) (max_entries * max_load_factor), computed without a product above
\* INT_MAX.
FloorProduct(max_entries, max_load_factor) ==
    LET num == max_load_factor[1]
        den == max_load_factor[2]
    IN  (max_entries \div den) * num + ((max_entries % den) * num) \div den

\* max_entries = 1; while (max_entries < min_entries) max_entries *= 2: the
\* smallest power of two >= min_entries. With min_entries above 2^30 the
\* product overflows the int at 2^30 * 2, max_entries becomes 0 after one
\* more turn, and the loop never ends: 0 stands for that.
RECURSIVE RoundUpPow2(_, _)
RoundUpPow2(max_entries, min_entries) ==
    IF max_entries < min_entries
    THEN (IF max_entries > INT_MAX \div 2 THEN 0
          ELSE RoundUpPow2(2 * max_entries, min_entries))
    ELSE max_entries

\* setup(cache) with the min_entries the conversion gave, for a loop that
\* ends: sizes and layout from the configuration fields.
setup_with(c, min_entries) ==
    LET max_entries == RoundUpPow2(1, min_entries)
        short_key == c.key_size < FAST_KEY_SIZE
        fast_key == c.key_size <= FAST_KEY_SIZE
        fast_value == c.value_size <= FAST_VALUE_SIZE
        fast_mode == fast_key /\ fast_value
        key_offset0 == 0
        value_offset0 == FAST_KEY_SIZE
        adj_value == MAX_ALIGN * (1 + CDiv(c.value_size - FAST_VALUE_SIZE - 1, MAX_ALIGN))
        adj_key == MAX_ALIGN * (1 + CDiv(c.key_size - FAST_KEY_SIZE - 1, MAX_ALIGN))
        shift_value == ~fast_mode /\ key_offset0 < value_offset0 /\ ~fast_key
        shift_key == ~fast_mode /\ ~shift_value /\ key_offset0 > value_offset0 /\ ~fast_value
    IN  [c EXCEPT
            !.item_count = 0,
            !.max_entries = max_entries,
            !.entries_mask = max_entries - 1,
            !.max_items = FloorProduct(max_entries, c.max_load_factor),
            !.short_key = short_key,
            !.fast_key = fast_key,
            !.fast_value = fast_value,
            !.fast_mode = fast_mode,
            !.key_offset = IF shift_key THEN key_offset0 + adj_key ELSE key_offset0,
            !.value_offset = IF shift_value THEN value_offset0 + adj_value ELSE value_offset0,
            !.item_size =
                IF fast_mode THEN ITEM_STRUCT_SIZE
                ELSE c.key_size + c.value_size
                     + (IF shift_value THEN adj_value ELSE IF shift_key THEN adj_key ELSE 0)]

\* setup(cache) of a configuration whose ceil(capacity / max_load_factor) is
\* an int of at most 2^30, as those of the callers of the public calls are.
setup(c) ==
    LET capacity == IF c.min_capacity < MIN_CAPACITY THEN MIN_CAPACITY ELSE c.min_capacity
    IN  setup_with(c, CeilQuotient(capacity, c.max_load_factor))

\* The ways setup(cache) may end: for each min_entries the conversion may
\* give, the cache set up, or a loop that never ends (hang).
setup_outcomes(c) ==
    {IF RoundUpPow2(1, min_entries) = 0
     THEN [cache |-> c, hang |-> TRUE]
     ELSE [cache |-> setup_with(c, min_entries), hang |-> FALSE] :
        min_entries \in min_entries_of(c)}

\* allocate with a new zeroed NA buffer on every call.
allocate_new_na_value(c) ==
    LET na_size == IF c.fast_value THEN FAST_VALUE_SIZE ELSE c.value_size
    IN  [c EXCEPT
            !.entries = [i \in 0..(c.max_entries - 1) |->
                            [hash_value |-> Zeros(4), item_index |-> 0]],
            !.items = [i \in 0..(c.max_items - 1) |-> Zeros(c.item_size)],
            !.states = [i \in 0..(c.max_entries - 1) |-> SLOT_EMPTY],
            !.na_value = Zeros(na_size)]

\* allocate(cache): zeroed entries, items and states; the NA buffer is
\* allocated (zeroed) only when there is none yet.
allocate(c) ==
    LET na_size == IF c.fast_value THEN FAST_VALUE_SIZE ELSE c.value_size
    IN  [c EXCEPT
            !.entries = [i \in 0..(c.max_entries - 1) |->
                            [hash_value |-> Zeros(4), item_index |-> 0]],
            !.items = [i \in 0..(c.max_items - 1) |-> Zeros(c.item_size)],
            !.states = [i \in 0..(c.max_entries - 1) |-> SLOT_EMPTY],
            !.na_value = IF c.na_value = <<>> THEN Zeros(na_size) ELSE c.na_value]

\* remove_all without the reset of item_count.
remove_all_keeps_count(c) ==
    [c EXCEPT
        !.entries = [i \in 0..(c.max_entries - 1) |->
                        [hash_value |-> Zeros(4), item_index |-> 0]],
        !.states = [i \in 0..(c.max_entries - 1) |-> SLOT_EMPTY],
        !.items = [i \in 0..(c.max_items - 1) |-> Zeros(c.item_size)]]

\* remove_all without the zeroing of the states.
remove_all_keeps_states(c) ==
    [c EXCEPT
        !.item_count = 0,
        !.entries = [i \in 0..(c.max_entries - 1) |->
                        [hash_value |-> Zeros(4), item_index |-> 0]],
        !.items = [i \in 0..(c.max_items - 1) |-> Zeros(c.item_size)]]

\* remove_all(cache): item_count = 0 and entries, states and items zeroed.
\* (The value destroyer's calls change nothing of the cache.)
remove_all(c) ==
    [c EXCEPT
        !.item_count = 0,
        !.entries = [i \in 0..(c.max_entries - 1) |->
                        [hash_value |-> Zeros(4), item_index |-> 0]],
        !.states = [i \in 0..(c.max_entries - 1) |-> SLOT_EMPTY],
        !.items = [i \in 0..(c.max_items - 1) |-> Zeros(c.item_size)]]

\* The loop of remove_all from slot i on: the calls of the value destroyer, one
\* for each slot that is not empty, with the address of the value of the
\* slot's item (the item's index, and the value there).
RECURSIVE destroy_loop(_, _)
destroy_loop(c, i) ==
    IF i >= c.max_entries THEN <<>>
    ELSE (IF ~is_slot_empty(c, i)
          THEN <<[fn |-> "value_destroyer",
                  arg |-> [item |-> c.entries[i].item_index,
                           value |-> item_value(c, c.entries[i].item_index)]]>>
          ELSE <<>>) \o destroy_loop(c, i + 1)

\* remove_all's calls with the three bzero before the loop.
remove_all_calls_zeroes_first(c) ==
    <<[fn |-> "bzero", arg |-> "entries"], [fn |-> "bzero", arg |-> "states"],
      [fn |-> "bzero", arg |-> "items"]>>
        \o (IF c.value_destroyer THEN destroy_loop(c, 0) ELSE <<>>)

\* The calls remove_all(cache) makes, in their order: the value destroyer's,
\* when there is one, then the three bzero.
remove_all_calls(c) ==
    (IF c.value_destroyer THEN destroy_loop(c, 0) ELSE <<>>)
        \o <<[fn |-> "bzero", arg |-> "entries"], [fn |-> "bzero", arg |-> "states"],
             [fn |-> "bzero", arg |-> "items"]>>

\* deallocate(cache): entries, items and states freed, the pointers NULL (<<>>).
deallocate(c) == [c EXCEPT !.entries = <<>>, !.items = <<>>, !.states = <<>>]

deallocate_calls ==
    <<[fn |-> "free", arg |-> "entries"], [fn |-> "free", arg |-> "items"],
      [fn |-> "free", arg |-> "states"]>>

\* The object of ihtCacheCreate before setup: zeroed (calloc), with the
\* configuration stored.
calloc_cache(min_capacity, key_size, value_sz, filler) ==
        [min_capacity |-> min_capacity, key_size |-> key_size, value_size |-> value_sz,
         max_load_factor |-> DEFAULT_LOAD_FACTOR, filler |-> filler,
         cxt_destroyer |-> FALSE, value_destroyer |-> FALSE,
         fast_mode |-> FALSE, fast_key |-> FALSE, fast_value |-> FALSE, short_key |-> FALSE,
         item_count |-> 0, max_entries |-> 0, entries_mask |-> 0, max_items |-> 0,
         item_size |-> 0, key_offset |-> 0, value_offset |-> 0, evict_index |-> 0,
         na_value |-> <<>>, work_key |-> Zeros(FAST_KEY_SIZE),
         states |-> <<>>, entries |-> <<>>, items |-> <<>>,
         stats |-> ZeroStats]

\* ihtCacheCreate: the object, then setup and allocate.
ihtCacheCreate(min_capacity, key_size, value_sz, filler) ==
    allocate(setup(calloc_cache(min_capacity, key_size, value_sz, filler)))

\* The allocations of ihtCacheCreate: the calloc of the object, and those of
\* allocate.
Allocations == {"cache", "entries", "items", "states", "na_value"}

\* ihtCacheCreate when the allocation failed fails: calloc returns NULL (<<>>).
\* The object is written through whatever calloc returned: for failed = "cache"
\* the fields are written through a null pointer (null_access), after which
\* the call may return anything or nothing. A null pointer that allocate got
\* is stored as it is, nothing is tested, and the object is returned.
ihtCacheCreate_failed(min_capacity, key_size, value_sz, filler, failed) ==
    IF failed = "cache"
    THEN [cache |-> deallocate(ihtCacheCreate(min_capacity, key_size, value_sz, filler)),
          rets |-> BOOLEAN,
          calls |-> <<[fn |-> "null_access", arg |-> "cache"]>>]
    ELSE [cache |-> [ihtCacheCreate(min_capacity, key_size, value_sz, filler)
                        EXCEPT ![failed] = <<>>],
          rets |-> {TRUE},
          calls |-> <<>>]

(***************************************************************************)
(* The keys of the model's callers, and the hashes of these keys           *)
(* tabulated.                                                              *)
(***************************************************************************)

\* The arguments <<min_capacity, key_size, value_size>> of ihtCacheCreate: a
\* short key, a 16-byte key and a key of three 8-byte lanes.
Configs == {<<16, 8, 8>>, <<16, 16, 8>>, <<16, 24, 8>>}

\* A caller's buffer of n bytes with the key numbered id: the number in its
\* first two bytes, zeros after them.
KeyBytes(n, id) ==
    [i \in 1..n |-> IF i = 1 THEN id % 256 ELSE IF i = 2 THEN id \div 256 ELSE 0]

\* The buffer of a caller of the cache c: it has the bytes a call can read.
Key(c, id) ==
    KeyBytes(IF c.key_size > FAST_KEY_SIZE THEN c.key_size ELSE FAST_KEY_SIZE, id)

\* The keys of the warm-up prefix, which fills a cache of 25 items. Under the
\* hash in use (the general one, or else the fast one with or without crc) the
\* first two of them have the same home slot, the lowest home slot of all, and
\* no other two do.
WarmIds(general, crc) ==
    IF general
    THEN <<13, 47, 1, 2, 3, 4, 5, 6, 7, 8, 9, 11, 15, 17, 18, 21, 24, 27, 28, 29,
           31, 32, 33, 35, 36>>
    ELSE IF crc
    THEN <<12, 19, 1, 3, 4, 5, 6, 7, 8, 9, 10, 11, 13, 14, 15, 31, 64, 65, 66, 67,
           68, 69, 70, 71, 72>>
    ELSE <<6, 17, 1, 2, 3, 4, 5, 7, 8, 9, 10, 11, 12, 13, 14, 20, 21, 22, 23, 26,
           27, 28, 32, 33, 34>>

\* A key that is not of the warm-up prefix, its home slot free after it.
NewId(general, crc) == IF general THEN 52 ELSE IF crc THEN 129 ELSE 36

\* A key the filler fails on.
FailId == 255

\* A key that is not of the warm-up prefix, its home slot the slot in which
\* the second key of the prefix is.
CollidingId(general, crc) == IF general THEN 34 ELSE IF crc THEN 2 ELSE 191

Ids(general, crc) ==
    {WarmIds(general, crc)[i] : i \in DOMAIN WarmIds(general, crc)}
        \cup {NewId(general, crc), FailId, CollidingId(general, crc)}

\* fast_key_hash and the general path of key_hash on the callers' keys,
\* computed once.
FastKeys(crc) == {KeyBytes(FAST_KEY_SIZE, id) : id \in Ids(FALSE, crc)}

FastHashes ==
    [crc \in BOOLEAN |-> [key \in FastKeys(crc) |-> fast_key_hash(crc, key)]]

SoftSizes == {cfg[2] : cfg \in {g \in Configs : g[2] > FAST_KEY_SIZE}}

SoftKeys(bytes) == {KeyBytes(bytes, id) : id \in Ids(TRUE, TRUE)}

SoftHashes ==
    [bytes \in SoftSizes |-> [key \in SoftKeys(bytes) |-> soft_key_hash(bytes, key)]]

\* fast_key_hash(key), from the table for a key of the table.
FastKeyHash(crc, key) ==
    IF key \in FastKeys(crc) THEN FastHashes[crc][key] ELSE fast_key_hash(crc, key)

\* The general path of key_hash, from the table for a key of the table.
SoftKeyHash(bytes, key) ==
    IF bytes \in SoftSizes /\ key \in SoftKeys(bytes)
    THEN SoftHashes[bytes][key]
    ELSE soft_key_hash(bytes, key)

(***************************************************************************)
(* Lookup.                                                                 *)
(***************************************************************************)

\* key_hash(cache, key): the hash of the key in the caller's buffer key; a
\* short key is first copied over the leading bytes of cache->work_key.
\* Returns the hash and the cache.
key_hash(c, key) ==
    LET work_key == [i \in 1..FAST_KEY_SIZE |->
                        IF i <= c.key_size THEN key[i] ELSE c.work_key[i]]
    IN  [hash |-> IF c.short_key \/ c.fast_key
                  THEN FastKeyHash(use_crc, IF c.short_key THEN work_key ELSE key)
                  ELSE SoftKeyHash(c.key_size, key),
         cache |-> IF c.short_key THEN [c EXCEPT !.work_key = work_key] ELSE c]

\* hash & cache->entries_mask, with entries_mask = 2^n - 1.
MaskIndex(c, hash) == Low24(hash) % (c.entries_mask + 1)

\* The probe loop of lookup_entry from slot index on: the slot of the entry
\* found (NULL at the first slot not in use) and the number of slots passed.
\* A probe that has passed every slot of a directory it does not change goes
\* on for ever (hang).
RECURSIVE lookup_loop(_, _, _, _, _)
lookup_loop(c, hash, key, index, scans) ==
    IF scans >= c.max_entries
    THEN [e |-> NULL, scans |-> scans, hang |-> TRUE]
    ELSE IF is_slot_used(c, index)
    THEN IF /\ c.entries[index].hash_value = hash
            /\ key_equals(c, item_key(c, c.entries[index].item_index), key)
         THEN [e |-> index, scans |-> scans, hang |-> FALSE]
         ELSE lookup_loop(c, hash, key, next_entry(c, index), scans + 1)
    ELSE [e |-> NULL, scans |-> scans, hang |-> FALSE]

\* lookup_entry(cache, key): the slot of the entry of key, or NULL.
lookup_entry(c0, key) ==
    LET Probed(c, r) ==
            IF r.e # NULL
            THEN [e |-> r.e, hang |-> FALSE,
                  cache |-> touch_entry(
                               [c EXCEPT !.stats.hits = bump_counter(@, r.scans)], r.e)]
            ELSE [e |-> NULL, hang |-> r.hang,
                  cache |-> [c EXCEPT !.stats.misses = bump_counter(@, r.scans)]]
        Probe(c, hash) == Probed(c, lookup_loop(c, hash, key, MaskIndex(c, hash), 0))
        Hashed(kh) == Probe([kh.cache EXCEPT !.stats.lookups = @ + 1], kh.hash)
    IN  Hashed(key_hash(c0, key))

\* The loop of fast_lookup_entry after its unrolled first check.
RECURSIVE fast_lookup_loop(_, _, _, _, _)
fast_lookup_loop(c, hash, key, index, scans) ==
    IF scans >= c.max_entries
    THEN [e |-> NULL, scans |-> scans, hang |-> TRUE]
    ELSE IF is_slot_used(c, index)
    THEN IF /\ c.entries[index].hash_value = hash
            /\ fast_key_equals(Bytes(c.items[c.entries[index].item_index], 0, FAST_KEY_SIZE), key)
         THEN [e |-> index, scans |-> scans, hang |-> FALSE]
         ELSE fast_lookup_loop(c, hash, key, next_entry(c, index), scans + 1)
    ELSE [e |-> NULL, scans |-> scans, hang |-> FALSE]

\* fast_lookup_entry with the check of the first slot and no loop after it.
fast_lookup_entry_first_slot_only(c0, key) ==
    LET c == [c0 EXCEPT !.stats.lookups = @ + 1]
        At(hash, index) ==
            IF /\ ~empty_slot(c.states[index])
               /\ c.entries[index].hash_value = hash
               /\ fast_key_equals(Bytes(c.items[c.entries[index].item_index],
                                        0, FAST_KEY_SIZE), key)
            THEN [e |-> index, hang |-> FALSE,
                  cache |-> touch_entry(
                               [c EXCEPT !.stats.hits = bump_counter(@, 0)], index)]
            ELSE [e |-> NULL, hang |-> FALSE,
                  cache |-> [c EXCEPT !.stats.misses = bump_counter(@, 0)]]
        Hashed(hash) == At(hash, MaskIndex(c0, hash))
    IN  Hashed(FastKeyHash(use_crc, key))

\* fast_lookup_entry(cache, key) on a 16-byte key passed by value: the first
\* slot is checked apart, the other slots in the loop.
fast_lookup_entry(c0, key) ==
    LET c == [c0 EXCEPT !.stats.lookups = @ + 1]
        Probed(r) ==
            IF r.e # NULL
            THEN [e |-> r.e, hang |-> FALSE,
                  cache |-> touch_entry(
                               [c EXCEPT !.stats.hits = bump_counter(@, r.scans)], r.e)]
            ELSE [e |-> NULL, hang |-> r.hang,
                  cache |-> [c EXCEPT !.stats.misses = bump_counter(@, r.scans)]]
        First(hash, index, state, e) ==
            IF empty_slot(state)
            THEN [e |-> NULL, hang |-> FALSE,
                  cache |-> [c EXCEPT !.stats.misses = bump_counter(@, 0)]]
            ELSE IF /\ e.hash_value = hash
                    /\ fast_key_equals(Bytes(c.items[e.item_index], 0, FAST_KEY_SIZE), key)
            THEN [e |-> index, hang |-> FALSE,
                  cache |-> [c EXCEPT !.stats.hits = bump_counter(@, 0),
                                      !.states[index] =
                                          IF state < SLOT_MAX_AGE THEN state + 1 ELSE state]]
            ELSE Probed(fast_lookup_loop(c, hash, key, next_entry(c, index), 1))
        At(hash, index) == First(hash, index, c.states[index], c.entries[index])
        Hashed(hash) == At(hash, MaskIndex(c0, hash))
    IN  Hashed(FastKeyHash(use_crc, key))

(***************************************************************************)
(* Eviction and allocation.                                                *)
(***************************************************************************)

\* The for loop of find_victim. a holds its variables: states, index, search,
\* victim_index, victim_state, scans. Each pass ends with scans++ and
\* index = next_entry(index), also the pass that sets search to 0. A scan of a
\* directory without a slot in use goes on for ever (hang).
RECURSIVE find_victim_loop(_, _)
find_victim_loop(c, a) ==
    IF a.search <= 0 \/ a.hang
    THEN a
    ELSE LET slot_state == a.states[a.index]
             adopt == slot_state < a.victim_state
             step == [a EXCEPT !.scans = @ + 1, !.index = next_entry(c, @)]
             b == IF empty_slot(slot_state)
                  THEN [step EXCEPT !.hang = (step.scans >= c.max_entries
                                              /\ a.search = MAX_EVICTION_SEARCH)]
                  ELSE IF adopt /\ slot_state = SLOT_MIN_AGE
                  THEN [step EXCEPT !.victim_index = a.index,
                                    !.victim_state = slot_state,
                                    !.search = 0]
                  ELSE [step EXCEPT !.victim_index = IF adopt THEN a.index ELSE @,
                                    !.victim_state = IF adopt THEN slot_state ELSE @,
                                    !.states[a.index] = slot_state - 1,
                                    !.search = @ - 1]
         IN  IF b.scans >= 0 THEN find_victim_loop(c, b) ELSE b

\* find_victim without the ageing of the slots it examines.
find_victim_no_decay(c) ==
    LET a == find_victim_loop(c,
                [states |-> c.states, index |-> c.evict_index,
                 search |-> MAX_EVICTION_SEARCH, victim_index |-> c.evict_index,
                 victim_state |-> SLOT_MAX_AGE + 1, scans |-> 0, hang |-> FALSE])
    IN  [victim_index |-> a.victim_index, hang |-> a.hang,
         cache |-> [c EXCEPT !.evict_index = a.index,
                             !.stats.evictions = bump_counter(@, a.scans)]]

\* find_victim with a budget of one slot more.
find_victim_longer_search(c) ==
    LET a == find_victim_loop(c,
                [states |-> c.states, index |-> c.evict_index,
                 search |-> MAX_EVICTION_SEARCH + 1, victim_index |-> c.evict_index,
                 victim_state |-> SLOT_MAX_AGE + 1, scans |-> 0, hang |-> FALSE])
    IN  [victim_index |-> a.victim_index, hang |-> a.hang,
         cache |-> [c EXCEPT !.states = a.states,
                             !.evict_index = a.index,
                             !.stats.evictions = bump_counter(@, a.scans)]]

\* find_victim(cache): the slot to evict; ages the slots it examines, moves
\* evict_index past the last slot visited and counts the eviction.
find_victim(c) ==
    LET a == find_victim_loop(c,
                [states |-> c.states, index |-> c.evict_index,
                 search |-> MAX_EVICTION_SEARCH, victim_index |-> c.evict_index,
                 victim_state |-> SLOT_MAX_AGE + 1, scans |-> 0, hang |-> FALSE])
    IN  [victim_index |-> a.victim_index, hang |-> a.hang,
         cache |-> [c EXCEPT !.states = a.states,
                             !.evict_index = a.index,
                             !.stats.evictions = bump_counter(@, a.scans)]]

\* The probe loop of alloc_new_entry from slot index on: the slot in use that
\* holds the key already (found), or else the first slot not in use.
RECURSIVE alloc_loop(_, _, _, _, _)
alloc_loop(c, hash_value, key, index, scans) ==
    IF scans >= c.max_entries
    THEN [found |-> FALSE, index |-> index, scans |-> scans, hang |-> TRUE]
    ELSE IF is_slot_used(c, index)
    THEN IF /\ c.entries[index].hash_value = hash_value
            /\ key_equals(c, item_key(c, c.entries[index].item_index), key)
         THEN [found |-> TRUE, index |-> index, scans |-> scans, hang |-> FALSE]
         ELSE alloc_loop(c, hash_value, key, next_entry(c, index), scans + 1)
    ELSE [found |-> FALSE, index |-> index, scans |-> scans, hang |-> FALSE]

\* take_victim without the decrement of item_count.
take_victim_keeps_count(c) ==
    LET fv == find_victim(c)
        victim_index == fv.victim_index
    IN  [victim_index |-> victim_index,
         victim_state |-> fv.cache.states[victim_index],
         new_entry_index |-> fv.cache.entries[victim_index].item_index,
         hang |-> fv.hang,
         cache |-> [fv.cache EXCEPT !.states[victim_index] = SLOT_EMPTY]]

\* take_victim giving the first item of the pool, not the victim's.
take_victim_first_item(c) ==
    LET fv == find_victim(c)
        victim_index == fv.victim_index
    IN  [victim_index |-> victim_index,
         victim_state |-> fv.cache.states[victim_index],
         new_entry_index |-> 0,
         hang |-> fv.hang,
         cache |-> [fv.cache EXCEPT !.states[victim_index] = SLOT_EMPTY,
                                    !.item_count = @ - 1]]

\* The branch of alloc_new_entry for a pool without a free item: the victim
\* found, its state saved, its slot set empty, item_count decremented and its
\* item taken for the new entry.
take_victim(c) ==
    LET fv == find_victim(c)
        victim_index == fv.victim_index
    IN  [victim_index |-> victim_index,
         victim_state |-> fv.cache.states[victim_index],
         new_entry_index |-> fv.cache.entries[victim_index].item_index,
         hang |-> fv.hang,
         cache |-> [fv.cache EXCEPT !.states[victim_index] = SLOT_EMPTY,
                                    !.item_count = @ - 1]]

\* alloc_new_entry(cache, key): the slot of the entry the caller is to store
\* the item of. With the pool full a victim is taken first; when the key is
\* then found in the directory the victim's state and item_count are restored.
\* evicted is the slot of a victim that was not restored (NULL without one).
alloc_new_entry(c0, key) ==
    LET full == c0.item_count >= c0.max_items
        Probed(v, c2, hash, r) ==
            IF v.hang \/ r.hang
            THEN [e |-> NULL, hang |-> TRUE, evicted |-> NULL, cache |-> c0]
            ELSE IF r.found
            THEN [e |-> r.index, hang |-> FALSE, evicted |-> NULL,
                  cache |-> [c2 EXCEPT
                                !.states[IF full THEN v.victim_index ELSE r.index] =
                                    IF full THEN v.victim_state ELSE @,
                                !.item_count = IF full THEN @ + 1 ELSE @,
                                !.stats.updates = bump_counter(@, r.scans)]]
            ELSE [e |-> r.index, hang |-> FALSE, evicted |-> v.victim_index,
                  cache |-> [c2 EXCEPT
                                !.entries[r.index] =
                                    [hash_value |-> hash,
                                     item_index |-> v.new_entry_index],
                                !.states[r.index] = INITIAL_STATE,
                                !.stats.adds = bump_counter(@, r.scans),
                                !.item_count = @ + 1]]
        Probe(v, c2, hash) ==
            Probed(v, c2, hash, alloc_loop(c2, hash, key, MaskIndex(c2, hash), 0))
        Hashed(v, kh) == Probe(v, kh.cache, kh.hash)
        Taken(v) == Hashed(v, key_hash(v.cache, key))
    IN  Taken(IF full THEN take_victim(c0)
              ELSE [victim_index |-> NULL, victim_state |-> SLOT_EMPTY,
                    new_entry_index |-> c0.item_count, hang |-> FALSE, cache |-> c0])

\* store_item without the copy of the value.
store_item_key_only(c, item_index, key, value) ==
    [c EXCEPT !.items[item_index] =
        [i \in 1..c.item_size |->
            IF i > c.key_offset /\ i <= c.key_offset + c.key_size
            THEN key[i - c.key_offset]
            ELSE @[i]]]

\* store_item without the copy of the key.
store_item_value_only(c, item_index, key, value) ==
    [c EXCEPT !.items[item_index] =
        [i \in 1..c.item_size |->
            IF i > c.value_offset /\ i <= c.value_offset + c.value_size
            THEN value[i - c.value_offset]
            ELSE @[i]]]

\* store_item(cache, item_index, key, value): memcpy of key_size bytes of key
\* to key_offset, then of value_size bytes of value to value_offset, both
\* counted from the address of the item. The pool is one array: a byte at an
\* offset of item_size or more is a byte of a following item (at is the place
\* of byte i of item j counted from the address of the item written). What is
\* written after the last item of the pool is outside the model.
store_item(c, item_index, key, value) ==
    [c EXCEPT !.items =
        [j \in DOMAIN @ |->
            IF \/ j < item_index
               \/ /\ (j - item_index) * c.item_size >= c.value_offset + c.value_size
                  /\ (j - item_index) * c.item_size >= c.key_offset + c.key_size
            THEN @[j]
            ELSE [i \in 1..c.item_size |->
                     LET at == (j - item_index) * c.item_size + i
                     IN  IF at > c.value_offset /\ at <= c.value_offset + c.value_size
                         THEN value[at - c.value_offset]
                         ELSE IF at > c.key_offset /\ at <= c.key_offset + c.key_size
                         THEN key[at - c.key_offset]
                         ELSE @[j][i]]]]

(***************************************************************************)
(* The producer (filler) of the model: a deterministic function of the     *)
(* key_size bytes of the key, which fails on the keys whose first byte is  *)
(* 255. A cache has the filler "f", or none ("none").                      *)
(***************************************************************************)

filler_ok(c, key) == key[1] # 255

filler_value(c, key) ==
    [i \in 1..c.value_size |-> 255 - key[((i - 1) % c.key_size) + 1]]

\* calc_new_entry with the entry allocated before the filler is called: a
\* failing filler leaves the entry.
calc_new_entry_allocates_first(c, key) ==
    IF c.filler = "none"
    THEN [e |-> NULL, hang |-> FALSE, evicted |-> NULL, filled |-> FALSE, cache |-> c,
          calls |-> <<>>]
    ELSE LET Allocated(a) ==
                 IF a.hang
                 THEN [e |-> NULL, hang |-> TRUE, evicted |-> NULL, filled |-> FALSE,
                       cache |-> c, calls |-> <<>>]
                 ELSE IF ~filler_ok(c, key)
                 THEN [e |-> NULL, hang |-> FALSE, evicted |-> NULL, filled |-> FALSE,
                       cache |-> a.cache,
                       calls |-> <<[fn |-> "filler", arg |-> Bytes(key, 0, c.key_size)]>>]
                 ELSE [e |-> a.e, hang |-> FALSE, evicted |-> a.evicted, filled |-> TRUE,
                       cache |-> store_item(a.cache, a.cache.entries[a.e].item_index,
                                            key, filler_value(c, key)),
                       calls |-> <<[fn |-> "filler", arg |-> Bytes(key, 0, c.key_size)],
                                   [fn |-> "store_item",
                                    arg |-> a.cache.entries[a.e].item_index]>>]
         IN  Allocated(alloc_new_entry(c, key))

\* calc_new_entry(cache, key): without a filler, or when the filler fails,
\* NULL; else the entry allocated for the key, the filler's value stored.
\* calls lists the calls made: that of the filler with the key, and that of
\* store_item with the item.
calc_new_entry(c, key) ==
    IF c.filler = "none"
    THEN [e |-> NULL, hang |-> FALSE, evicted |-> NULL, filled |-> FALSE, cache |-> c,
          calls |-> <<>>]
    ELSE IF ~filler_ok(c, key)
    THEN [e |-> NULL, hang |-> FALSE, evicted |-> NULL, filled |-> FALSE, cache |-> c,
          calls |-> <<[fn |-> "filler", arg |-> Bytes(key, 0, c.key_size)]>>]
    ELSE LET Allocated(a) ==
                 IF a.hang
                 THEN [e |-> NULL, hang |-> TRUE, evicted |-> NULL, filled |-> FALSE,
                       cache |-> c,
                       calls |-> <<[fn |-> "filler", arg |-> Bytes(key, 0, c.key_size)]>>]
                 ELSE [e |-> a.e, hang |-> FALSE, evicted |-> a.evicted, filled |-> TRUE,
                       cache |-> store_item(a.cache, a.cache.entries[a.e].item_index,
                                            key, filler_value(c, key)),
                       calls |-> <<[fn |-> "filler", arg |-> Bytes(key, 0, c.key_size)],
                                   [fn |-> "store_item",
                                    arg |-> a.cache.entries[a.e].item_index]>>]
         IN  Allocated(alloc_new_entry(c, key))

(***************************************************************************)
(* The public operations. Each returns the cache after the call, the       *)
(* value returned (ret), the caller's value_out buffer after the call      *)
(* (out), whether the call fails to return (hang), the slot of the victim  *)
(* it evicted (NULL without one), whether it stored an item (filled), and  *)
(* the calls it made of the caller's functions and of store_item (calls).  *)
(***************************************************************************)

\* ihtCacheFetch(cache, key, value_out).
ihtCacheFetch(c, key, value_out) ==
    LET Hang == [cache |-> c, ret |-> FALSE, out |-> value_out, hang |-> TRUE,
                 evicted |-> NULL, filled |-> FALSE,
                  calls |-> <<>>]
        Calculated(n) ==
            IF n.hang THEN Hang
            ELSE IF n.e = NULL
            THEN [cache |-> n.cache, ret |-> FALSE, out |-> value_out,
                  hang |-> FALSE, evicted |-> NULL, filled |-> FALSE,
                  calls |-> n.calls]
            ELSE [cache |-> n.cache, ret |-> TRUE,
                  out |-> item_value(n.cache, n.cache.entries[n.e].item_index),
                  hang |-> FALSE, evicted |-> n.evicted, filled |-> TRUE,
                  calls |-> n.calls]
        Looked(l) ==
            IF l.hang THEN Hang
            ELSE IF l.e # NULL
            THEN [cache |-> l.cache, ret |-> TRUE,
                  out |-> item_value(l.cache, l.cache.entries[l.e].item_index),
                  hang |-> FALSE, evicted |-> NULL, filled |-> FALSE,
                  calls |-> <<>>]
            ELSE Calculated(calc_new_entry(l.cache, key))
    IN  Looked(lookup_entry(c, key))

\* ihtCachePut(cache, key, value).
ihtCachePut(c, key, value) ==
    LET Allocated(a) ==
            IF a.hang
            THEN [cache |-> c, ret |-> FALSE, out |-> <<>>, hang |-> TRUE,
                  evicted |-> NULL, filled |-> FALSE,
                  calls |-> <<>>]
            ELSE [cache |-> store_item(a.cache, a.cache.entries[a.e].item_index,
                                       key, value),
                  ret |-> TRUE, out |-> <<>>, hang |-> FALSE, evicted |-> a.evicted,
                  filled |-> TRUE,
                  calls |-> <<[fn |-> "store_item", arg |-> a.cache.entries[a.e].item_index]>>]
    IN  Allocated(alloc_new_entry(c, key))

\* ihtCacheLookup that goes on to calc_new_entry on a miss, as ihtCacheFetch.
ihtCacheLookup_calculates(c, key, value_out) ==
    LET Hang == [cache |-> c, ret |-> FALSE, out |-> value_out, hang |-> TRUE,
                 evicted |-> NULL, filled |-> FALSE, calls |-> <<>>]
        Calculated(n) ==
            IF n.hang THEN Hang
            ELSE IF n.e = NULL
            THEN [cache |-> n.cache, ret |-> FALSE, out |-> value_out,
                  hang |-> FALSE, evicted |-> NULL, filled |-> FALSE,
                  calls |-> n.calls]
            ELSE [cache |-> n.cache, ret |-> TRUE,
                  out |-> item_value(n.cache, n.cache.entries[n.e].item_index),
                  hang |-> FALSE, evicted |-> n.evicted, filled |-> TRUE,
                  calls |-> n.calls]
        Looked(l) ==
            IF l.hang THEN Hang
            ELSE IF l.e # NULL
            THEN [cache |-> l.cache, ret |-> TRUE,
                  out |-> item_value(l.cache, l.cache.entries[l.e].item_index),
                  hang |-> FALSE, evicted |-> NULL, filled |-> FALSE,
                  calls |-> <<>>]
            ELSE Calculated(calc_new_entry(l.cache, key))
    IN  Looked(lookup_entry(c, key))

\* ihtCacheLookup with the value copied out before the test of the entry: on
\* a miss, the value of the item 0.
ihtCacheLookup_copies_first(c, key, value_out) ==
    LET Looked(l) ==
            IF l.hang
            THEN [cache |-> c, ret |-> FALSE, out |-> value_out, hang |-> TRUE,
                  evicted |-> NULL, filled |-> FALSE,
                  calls |-> <<>>]
            ELSE IF l.e = NULL
            THEN [cache |-> l.cache, ret |-> FALSE, out |-> item_value(l.cache, 0),
                  hang |-> FALSE, evicted |-> NULL, filled |-> FALSE,
                  calls |-> <<>>]
            ELSE [cache |-> l.cache, ret |-> TRUE,
                  out |-> item_value(l.cache, l.cache.entries[l.e].item_index),
                  hang |-> FALSE, evicted |-> NULL, filled |-> FALSE,
                  calls |-> <<>>]
    IN  Looked(lookup_entry(c, key))

\* ihtCacheLookup(cache, key, value_out).
ihtCacheLookup(c, key, value_out) ==
    LET Looked(l) ==
            IF l.hang
            THEN [cache |-> c, ret |-> FALSE, out |-> value_out, hang |-> TRUE,
                  evicted |-> NULL, filled |-> FALSE,
                  calls |-> <<>>]
            ELSE IF l.e = NULL
            THEN [cache |-> l.cache, ret |-> FALSE, out |-> value_out,
                  hang |-> FALSE, evicted |-> NULL, filled |-> FALSE,
                  calls |-> <<>>]
            ELSE [cache |-> l.cache, ret |-> TRUE,
                  out |-> item_value(l.cache, l.cache.entries[l.e].item_index),
                  hang |-> FALSE, evicted |-> NULL, filled |-> FALSE,
                  calls |-> <<>>]
    IN  Looked(lookup_entry(c, key))

\* ihtCacheGet(cache, key): ret is the item whose value the returned pointer
\* addresses (NULL for a null pointer).
ihtCacheGet(c, key) ==
    LET Hang == [cache |-> c, ret |-> NULL, out |-> <<>>, hang |-> TRUE,
                 evicted |-> NULL, filled |-> FALSE,
                  calls |-> <<>>]
        Calculated(n) ==
            IF n.hang THEN Hang
            ELSE IF n.e = NULL
            THEN [cache |-> n.cache, ret |-> NULL, out |-> <<>>,
                  hang |-> FALSE, evicted |-> NULL, filled |-> FALSE,
                  calls |-> n.calls]
            ELSE [cache |-> n.cache, ret |-> n.cache.entries[n.e].item_index,
                  out |-> <<>>, hang |-> FALSE, evicted |-> n.evicted, filled |-> TRUE,
                  calls |-> n.calls]
        Looked(l) ==
            IF l.hang THEN Hang
            ELSE IF l.e # NULL
            THEN [cache |-> l.cache, ret |-> l.cache.entries[l.e].item_index,
                  out |-> <<>>, hang |-> FALSE, evicted |-> NULL, filled |-> FALSE,
                  calls |-> <<>>]
            ELSE Calculated(calc_new_entry(l.cache, key))
    IN  Looked(lookup_entry(c, key))

\* ihtCacheGet_Fast(cache, key) on a 16-byte key passed by value: out is the
\* 16-byte value returned, the NA buffer's on a miss that is not filled.
ihtCacheGet_Fast(c, key) ==
    LET value(cc, e) == Bytes(cc.items[cc.entries[e].item_index],
                              FAST_KEY_SIZE, FAST_VALUE_SIZE)
        Hang == [cache |-> c, ret |-> FALSE, out |-> <<>>, hang |-> TRUE,
                 evicted |-> NULL, filled |-> FALSE,
                  calls |-> <<>>]
        Calculated(n) ==
            IF n.hang THEN Hang
            ELSE IF n.e = NULL
            THEN [cache |-> n.cache, ret |-> FALSE,
                  out |-> Bytes(n.cache.na_value, 0, FAST_VALUE_SIZE),
                  hang |-> FALSE, evicted |-> NULL, filled |-> FALSE,
                  calls |-> n.calls]
            ELSE [cache |-> n.cache, ret |-> TRUE, out |-> value(n.cache, n.e),
                  hang |-> FALSE, evicted |-> n.evicted, filled |-> TRUE,
                  calls |-> n.calls]
        Looked(l) ==
            IF l.hang THEN Hang
            ELSE IF l.e # NULL
            THEN [cache |-> l.cache, ret |-> TRUE, out |-> value(l.cache, l.e),
                  hang |-> FALSE, evicted |-> NULL, filled |-> FALSE,
                  calls |-> <<>>]
            ELSE Calculated(calc_new_entry(l.cache, key))
    IN  Looked(fast_lookup_entry(c, key))

ihtCacheRemoveAll(c) == remove_all(c)

\* ihtCacheDestroy: remove_all, deallocate, the context destroyer called when
\* there is one, then the NA buffer and the object freed.
ihtCacheDestroy(c) == deallocate(remove_all(c))

ihtCacheDestroy_calls(c) ==
    remove_all_calls(c) \o deallocate_calls
        \o (IF c.cxt_destroyer THEN <<[fn |-> "cxt_destroyer", arg |-> "cxt"]>> ELSE <<>>)
        \o <<[fn |-> "free", arg |-> "na_value"], [fn |-> "free", arg |-> "cache"]>>

\* ihtCacheReconfigure: remove_all, deallocate, setup, allocate.
ihtCacheReconfigure(c) == allocate(setup(deallocate(remove_all(c))))

ihtCacheReconfigure_calls(c) == remove_all_calls(c) \o deallocate_calls

\* ihtCacheClearStats that zeroes the items with the statistics.
ihtCacheClearStats_zeroes_items(c) ==
    [c EXCEPT !.stats = ZeroStats,
              !.items = [i \in DOMAIN c.items |-> Zeros(c.item_size)]]

\* ihtCacheClearStats that leaves the number of lookups.
ihtCacheClearStats_keeps_lookups(c) ==
    [c EXCEPT !.stats = [ZeroStats EXCEPT !.lookups = c.stats.lookups]]

ihtCacheClearStats(c) == [c EXCEPT !.stats = ZeroStats]

ihtCacheSetMaxLoadFactor(c, max_load_factor) ==
    [c EXCEPT !.max_load_factor = max_load_factor]

ihtCacheSetMinCapacity(c, min_capacity) == [c EXCEPT !.min_capacity = min_capacity]

ihtCacheSetCxtDestroyer(c, cxt_destroyer) == [c EXCEPT !.cxt_destroyer = cxt_destroyer]

ihtCacheSetValueDestroyer(c, value_destroyer) ==
    [c EXCEPT !.value_destroyer = value_destroyer]

\* ihtCacheSetNAValue(cache, na_value): value_size bytes of the NA buffer are
\* copied from na_value, or zeroed for a null na_value (<<>>).
ihtCacheSetNAValue(c, na_value) ==
    [c EXCEPT !.na_value =
        [i \in 1..Len(@) |->
            IF i <= c.value_size
            THEN (IF na_value = <<>> THEN 0 ELSE na_value[i])
            ELSE @[i]]]

(***************************************************************************)
(* The callers of the model: their caches, keys, values and calls.         *)
(***************************************************************************)

\* The calls made after the warm-up prefix.
MaxSteps == 2

\* The value of value_size bytes n.
Value(c, n) == [i \in 1..c.value_size |-> n]

\* The caller's value_out buffer before a call.
OutInit(c) == [i \in 1..c.value_size |-> 170]

\* The keys of the calls after the warm-up prefix.
FreeIds(c) ==
    LET w == WarmIds(~c.fast_key, use_crc)
    IN  {w[1], w[2], NewId(~c.fast_key, use_crc), FailId}

\* In the prefix, the calls that set the two destroyers.
SET_VALUE_DESTROYER == -1
SET_CXT_DESTROYER == -2

NextKeys ==
    IF warm # <<>>
    THEN (IF Head(warm) < 0 THEN {} ELSE {Key(cache, Head(warm))})
    ELSE {Key(cache, id) : id \in FreeIds(cache)}

Values == {Value(cache, 1), Value(cache, 2)}

NextValues == IF warm # <<>> THEN {Value(cache, 1)} ELSE Values

\* A call of the prefix sets a destroyer, or is a Put on a cache without a
\* filler, a Fetch on one with. No call follows ihtCacheDestroy, and none an
\* ihtCacheCreate in which an allocation failed.
MayCall(op) ==
    IF warm # <<>>
    THEN op = (IF Head(warm) = SET_VALUE_DESTROYER THEN "SetValueDestroyer"
               ELSE IF Head(warm) = SET_CXT_DESTROYER THEN "SetCxtDestroyer"
               ELSE IF cache.filler = "none" THEN "Put" ELSE "Fetch")
    ELSE /\ steps < MaxSteps
         /\ last.op # "Destroy"
         /\ ~(last.op = "Create" /\ last.value # <<>>)

\* No pointer returned by ihtCacheGet is held.
NoBorrow == [item |-> NULL, key |-> <<>>, value |-> <<>>]

\* The item a caller holds a pointer into after a call: that of the pointer
\* ihtCacheGet returns; none after a call that may change the items (a Put, a
\* fetch-style call that stores, RemoveAll, Reconfigure, Destroy); else the
\* one held before.
BorrowAfter(called_last, c) ==
    IF called_last.op = "Get" /\ ~called_last.hang /\ called_last.ret # NULL
    THEN [item |-> called_last.ret, key |-> item_key(c, called_last.ret),
          value |-> item_value(c, called_last.ret)]
    ELSE IF \/ called_last.op \in {"Put", "RemoveAll", "Reconfigure", "Destroy"}
            \/ called_last.filled
            \/ called_last.hang
    THEN NoBorrow
    ELSE borrow

Advance(op) ==
    /\ borrow' = BorrowAfter(last', cache')
    /\ called' = called \cup {op}
    /\ warm' = IF warm # <<>> THEN Tail(warm) ELSE warm
    /\ steps' = IF warm # <<>> THEN steps ELSE steps + 1
    /\ IF op = "SetNAValue" THEN TRUE ELSE UNCHANGED na_given
    /\ UNCHANGED use_crc

\* The key of key_size bytes in a buffer.
KeyOf(c, key) == Bytes(key, 0, c.key_size)

\* live after a call that evicted the victim in slot evicted of the cache pre
\* (NULL: none) and stored (key, value) (stored = FALSE: nothing).
LiveAfter(pre, evicted, stored, key, value) ==
    LET gone == IF evicted = NULL THEN {}
                ELSE {item_key(pre, pre.entries[evicted].item_index)}
        kept == [k \in (DOMAIN live) \ gone |-> live[k]]
    IN  IF stored THEN (KeyOf(pre, key) :> value) @@ kept ELSE kept

Called(op, key, value, r) ==
    [op |-> op, key |-> key, value |-> value, ret |-> r.ret, out |-> r.out,
     hang |-> r.hang, evicted |-> r.evicted, filled |-> r.filled, pre |-> cache,
     calls |-> r.calls]

\* The call op(key, value) with the result r, which stores the value stored
\* when it stores.
Call(op, key, value, stored, r) ==
    /\ cache' = r.cache
    /\ last' = Called(op, key, value, r)
    /\ live' = LiveAfter(cache, r.evicted, r.filled, key, stored)

\* The prefixes: none, the calls that fill the cache, and these after the
\* calls that set the two destroyers.
Prefix(kind, general, crc) ==
    IF kind = "none" THEN <<>>
    ELSE IF kind = "fill" THEN WarmIds(general, crc)
    ELSE <<SET_VALUE_DESTROYER, SET_CXT_DESTROYER>> \o WarmIds(general, crc)

\* ihtCacheCreate, all its allocations successful.
Created ==
    \E cfg \in Configs, crc \in BOOLEAN, filler \in {"none", "f"},
       kind \in {"none", "fill", "destroyers"} :
        /\ cache = ihtCacheCreate(cfg[1], cfg[2], cfg[3], filler)
        /\ use_crc = crc
        /\ last = [op |-> "Create", key |-> <<>>, value |-> <<>>, ret |-> TRUE,
                   out |-> <<>>, hang |-> FALSE, evicted |-> NULL, filled |-> FALSE,
                   pre |-> <<>>, calls |-> <<>>]
        /\ live = <<>>
        /\ called = {}
        /\ warm = Prefix(kind, cfg[2] > FAST_KEY_SIZE, crc)
        /\ steps = 0
        /\ na_given = <<>>
        /\ borrow = NoBorrow

\* ihtCacheCreate, one of its allocations failing (last.value holds its name).
CreateFailed ==
    \E cfg \in Configs, crc \in BOOLEAN, filler \in {"none", "f"},
       failed \in Allocations :
        \E ret \in ihtCacheCreate_failed(cfg[1], cfg[2], cfg[3], filler, failed).rets :
            /\ cache = ihtCacheCreate_failed(cfg[1], cfg[2], cfg[3], filler, failed).cache
            /\ use_crc = crc
            /\ last = [op |-> "Create", key |-> <<>>, value |-> <<failed>>, ret |-> ret,
                       out |-> <<>>, hang |-> FALSE, evicted |-> NULL, filled |-> FALSE,
                       pre |-> <<>>,
                       calls |-> ihtCacheCreate_failed(
                                     cfg[1], cfg[2], cfg[3], filler, failed).calls]
            /\ live = <<>>
            /\ called = {}
            /\ warm = <<>>
            /\ steps = 0
            /\ na_given = <<>>
        /\ borrow = NoBorrow

Init == Created \/ CreateFailed

(***************************************************************************)
(* The calls.                                                              *)
(***************************************************************************)

Fetch(key) ==
    /\ MayCall("Fetch")
    /\ Call("Fetch", key, <<>>, filler_value(cache, key),
            ihtCacheFetch(cache, key, OutInit(cache)))
    /\ Advance("Fetch")

Put(key, value) ==
    /\ MayCall("Put")
    /\ Call("Put", key, value, value, ihtCachePut(cache, key, value))
    /\ Advance("Put")

Lookup(key) ==
    /\ MayCall("Lookup")
    /\ Call("Lookup", key, <<>>, <<>>, ihtCacheLookup(cache, key, OutInit(cache)))
    /\ Advance("Lookup")

Get(key) ==
    /\ MayCall("Get")
    /\ Call("Get", key, <<>>, filler_value(cache, key), ihtCacheGet(cache, key))
    /\ Advance("Get")

\* Get_Fast is for the caches in fast mode; its key is the 16 bytes of the
\* caller's buffer.
Get_Fast(key) ==
    /\ MayCall("Get_Fast")
    /\ cache.fast_mode
    /\ Call("Get_Fast", key, <<>>, filler_value(cache, key),
            ihtCacheGet_Fast(cache, Bytes(key, 0, FAST_KEY_SIZE)))
    /\ Advance("Get_Fast")

\* ihtCacheFetch(cache, key, value_out) with a filler that, called for the
\* key, itself calls ihtCachePut(cache, key, value) and then gives the
\* filler's value: calc_new_entry goes on with alloc_new_entry and store_item
\* on the cache the inner call left.
ihtCacheFetch_reentrant(c, key, value_out, value) ==
    LET Hang == [cache |-> c, ret |-> FALSE, out |-> value_out, hang |-> TRUE,
                 evicted |-> NULL, filled |-> FALSE, calls |-> <<>>]
        Allocated(a) ==
            IF a.hang THEN Hang
            ELSE [cache |-> store_item(a.cache, a.cache.entries[a.e].item_index,
                                       key, filler_value(c, key)),
                  ret |-> TRUE, out |-> filler_value(c, key), hang |-> FALSE,
                  evicted |-> a.evicted, filled |-> TRUE,
                  calls |-> <<[fn |-> "filler", arg |-> Bytes(key, 0, c.key_size)],
                              [fn |-> "store_item",
                               arg |-> a.cache.entries[a.e].item_index]>>]
        Filled(i) == IF i.hang THEN Hang ELSE Allocated(alloc_new_entry(i.cache, key))
        Looked(l) ==
            IF l.hang THEN Hang
            ELSE IF l.e # NULL
            THEN [cache |-> l.cache, ret |-> TRUE,
                  out |-> item_value(l.cache, l.cache.entries[l.e].item_index),
                  hang |-> FALSE, evicted |-> NULL, filled |-> FALSE,
                  calls |-> <<>>]
            ELSE Filled(ihtCachePut(l.cache, key, value))
    IN  Looked(lookup_entry(c, key))

\* A Fetch whose filler calls Put for the same key.
FetchReentrant(key) ==
    /\ MayCall("Fetch")
    /\ warm = <<>>
    /\ cache.filler = "f"
    /\ LET Done(r) ==
            /\ cache' = r.cache
            /\ last' = Called("FetchReentrant", key, <<>>, r)
            /\ called' = called \cup (IF r.filled THEN {"FetchReentrant", "Put"}
                                      ELSE {"FetchReentrant"})
       IN  Done(ihtCacheFetch_reentrant(cache, key, OutInit(cache), Value(cache, 1)))
    /\ live' = <<>>
    /\ borrow' = BorrowAfter(last', cache')
    /\ steps' = steps + 1
    /\ UNCHANGED <<warm, na_given, use_crc>>

\* A call that returns nothing and stores nothing.
Returned(op, calls) ==
    [op |-> op, key |-> <<>>, value |-> <<>>, ret |-> TRUE, out |-> <<>>,
     hang |-> FALSE, evicted |-> NULL, filled |-> FALSE, pre |-> cache,
     calls |-> calls]

RemoveAll ==
    /\ MayCall("RemoveAll")
    /\ cache' = ihtCacheRemoveAll(cache)
    /\ last' = Returned("RemoveAll", remove_all_calls(cache))
    /\ live' = <<>>
    /\ Advance("RemoveAll")

Reconfigure ==
    /\ MayCall("Reconfigure")
    /\ cache' = ihtCacheReconfigure(cache)
    /\ last' = Returned("Reconfigure", ihtCacheReconfigure_calls(cache))
    /\ live' = <<>>
    /\ Advance("Reconfigure")

Destroy ==
    /\ MayCall("Destroy")
    /\ cache' = ihtCacheDestroy(cache)
    /\ last' = Returned("Destroy", ihtCacheDestroy_calls(cache))
    /\ live' = <<>>
    /\ Advance("Destroy")

ClearStats ==
    /\ MayCall("ClearStats")
    /\ cache' = ihtCacheClearStats(cache)
    /\ last' = Returned("ClearStats", <<>>)
    /\ UNCHANGED live
    /\ Advance("ClearStats")

\* The load factors 0.5 and 0.75 and the capacity 40 a caller sets.
SetMaxLoadFactor(max_load_factor) ==
    /\ MayCall("SetMaxLoadFactor")
    /\ cache' = ihtCacheSetMaxLoadFactor(cache, max_load_factor)
    /\ last' = Returned("SetMaxLoadFactor", <<>>)
    /\ UNCHANGED live
    /\ Advance("SetMaxLoadFactor")

SetMinCapacity(min_capacity) ==
    /\ MayCall("SetMinCapacity")
    /\ cache' = ihtCacheSetMinCapacity(cache, min_capacity)
    /\ last' = Returned("SetMinCapacity", <<>>)
    /\ UNCHANGED live
    /\ Advance("SetMinCapacity")

SetCxtDestroyer ==
    /\ MayCall("SetCxtDestroyer")
    /\ cache' = ihtCacheSetCxtDestroyer(cache, TRUE)
    /\ last' = Returned("SetCxtDestroyer", <<>>)
    /\ UNCHANGED live
    /\ Advance("SetCxtDestroyer")

SetValueDestroyer ==
    /\ MayCall("SetValueDestroyer")
    /\ cache' = ihtCacheSetValueDestroyer(cache, TRUE)
    /\ last' = Returned("SetValueDestroyer", <<>>)
    /\ UNCHANGED live
    /\ Advance("SetValueDestroyer")

SetNAValue(na_value) ==
    /\ MayCall("SetNAValue")
    /\ cache' = ihtCacheSetNAValue(cache, na_value)
    /\ last' = Returned("SetNAValue", <<>>)
    /\ na_given' = na_value
    /\ UNCHANGED live
    /\ Advance("SetNAValue")

Next ==
    \/ \E key \in NextKeys : Fetch(key)
    \/ \E key \in NextKeys \cup {Key(cache, CollidingId(~cache.fast_key, use_crc))} :
          FetchReentrant(key)
    \/ \E key \in NextKeys, value \in NextValues : Put(key, value)
    \/ \E key \in NextKeys : Lookup(key)
    \/ \E key \in NextKeys : Get(key)
    \/ \E key \in NextKeys : Get_Fast(key)
    \/ RemoveAll
    \/ Reconfigure
    \/ Destroy
    \/ ClearStats
    \/ \E max_load_factor \in {<<1, 2>>, <<3, 4>>} : SetMaxLoadFactor(max_load_factor)
    \/ SetMinCapacity(40)
    \/ SetCxtDestroyer
    \/ SetValueDestroyer
    \/ \E na_value \in {Value(cache, 3), <<>>} : SetNAValue(na_value)

Spec == Init /\ [][Next]_vars

(***************************************************************************)
(* The sizes setup computes, for the capacities and load factors a caller  *)
(* may give: ihtCacheCreate, then the two setters and ihtCacheReconfigure. *)
(* The cache is the object as setup leaves it; the arrays are not          *)
(* allocated. last holds the call, whether it failed to return, and the    *)
(* object before it.                                                       *)
(***************************************************************************)

\* The capacities: below, at and above MIN_CAPACITY, and those whose
\* quotient by a load factor is above 2^30 or above INT_MAX.
SizingCapacities ==
    {0, 16, 17, 40, 1000, 429496730, 536870912, 858993460, 1073741824, INT_MAX}

\* The load factors 0.4 (the default), 0.5, 0.75 and 0.9.
\* The caches of at most this many slots have their arrays in the model.
SizingMaxEntries == 64

SizingLoadFactors == {DEFAULT_LOAD_FACTOR, <<1, 2>>, <<3, 4>>, <<9, 10>>}

\* allocate(cache) of the caches whose arrays are small; the arrays of the
\* others are left out.
SizingAllocate(o) ==
    IF ~o.hang /\ o.cache.max_entries <= SizingMaxEntries
    THEN allocate(o.cache) ELSE o.cache

SizingCreate ==
    \E min_capacity \in SizingCapacities :
        \E o \in setup_outcomes(calloc_cache(min_capacity, 8, 8, "none")) :
            /\ cache = SizingAllocate(o)
            /\ last = [op |-> "Create", hang |-> o.hang,
                       pre |-> calloc_cache(min_capacity, 8, 8, "none")]
            /\ use_crc = FALSE /\ live = <<>> /\ called = {} /\ warm = <<>>
            /\ steps = 0 /\ na_given = <<>> /\ borrow = NoBorrow

SizingSetMinCapacity(min_capacity) ==
    /\ ~last.hang
    /\ cache' = ihtCacheSetMinCapacity(cache, min_capacity)
    /\ last' = [op |-> "SetMinCapacity", hang |-> FALSE, pre |-> cache]
    /\ UNCHANGED <<use_crc, live, called, warm, steps, na_given, borrow>>

SizingSetMaxLoadFactor(max_load_factor) ==
    /\ ~last.hang
    /\ cache' = ihtCacheSetMaxLoadFactor(cache, max_load_factor)
    /\ last' = [op |-> "SetMaxLoadFactor", hang |-> FALSE, pre |-> cache]
    /\ UNCHANGED <<use_crc, live, called, warm, steps, na_given, borrow>>

\* ihtCacheReconfigure, of which only setup writes the sizes.
SizingReconfigure ==
    /\ ~last.hang
    /\ \E o \in setup_outcomes(deallocate(cache)) :
          /\ cache' = SizingAllocate(o)
          /\ last' = [op |-> "Reconfigure", hang |-> o.hang, pre |-> cache]
    /\ UNCHANGED <<use_crc, live, called, warm, steps, na_given, borrow>>

\* ihtCachePut, the first of the cache, on a cache just sized, its arrays
\* small; a call that does not return leaves the cache as it is.
SizingPut(id) ==
    /\ ~last.hang
    /\ last.op \in {"Create", "Reconfigure"}
    /\ steps < 1
    /\ cache.max_entries <= SizingMaxEntries
    /\ LET Done(r) ==
            /\ cache' = (IF r.hang THEN cache ELSE r.cache)
            /\ last' = [op |-> "Put", hang |-> r.hang, pre |-> cache]
       IN  Done(ihtCachePut(cache, Key(cache, id), Value(cache, 1)))
    /\ steps' = steps + 1
    /\ UNCHANGED <<use_crc, live, called, warm, na_given, borrow>>

SizingNext ==
    \/ \E min_capacity \in SizingCapacities : SizingSetMinCapacity(min_capacity)
    \/ \E max_load_factor \in SizingLoadFactors : SizingSetMaxLoadFactor(max_load_factor)
    \/ SizingReconfigure
    \/ \E id \in {NewId(FALSE, FALSE), FailId} : SizingPut(id)

SizingSpec == SizingCreate /\ [][SizingNext]_vars

(***************************************************************************)
(* The layout of the items and the hash of the keys, for the key and value *)
(* sizes a caller may give: ihtCacheCreate, then store_item and key_hash   *)
(* applied to the cache. last holds the call, its arguments, the hash      *)
(* returned and the cache before it.                                       *)
(***************************************************************************)

\* The sizes of a key or value: one byte, below, at and above the 16 bytes of
\* a fast key or value, multiples of 8 and of 16 and others.
LayoutSizes == {1, 8, 15, 16, 17, 24, 32, 33, 40}

\* The memory behind const void *key of a call for the key numbered id: the
\* key_size bytes of the key, and after them the bytes (of value pad) of
\* whatever follows the key in the caller's memory, as far as key_hash reads:
\* 16 bytes of a fast key, whole 8-byte lanes of a longer one.
LayoutKey(c, id, pad) ==
    [i \in 1..(IF c.key_size > FAST_KEY_SIZE THEN 8 * ((c.key_size + 7) \div 8)
               ELSE FAST_KEY_SIZE) |->
        IF i <= c.key_size THEN KeyBytes(c.key_size, id)[i] ELSE pad]

LayoutCreate ==
    \E key_size \in LayoutSizes, value_sz \in LayoutSizes :
        /\ cache = ihtCacheCreate(MIN_CAPACITY, key_size, value_sz, "none")
        /\ last = [op |-> "Create", item |-> NULL, key |-> <<>>, value |-> <<>>,
                   hash |-> <<>>, pre |-> calloc_cache(MIN_CAPACITY, key_size, value_sz, "none")]
        /\ use_crc = FALSE /\ live = <<>> /\ called = {} /\ warm = <<>>
        /\ steps = 0 /\ na_given = <<>> /\ borrow = NoBorrow

\* store_item of the key numbered id and a value of bytes n to an item.
LayoutStore(item_index, id, n) ==
    /\ steps < MaxSteps
    /\ cache' = store_item(cache, item_index, LayoutKey(cache, id, 0), Value(cache, n))
    /\ last' = [op |-> "store_item", item |-> item_index,
                key |-> LayoutKey(cache, id, 0), value |-> Value(cache, n),
                hash |-> <<>>, pre |-> cache]
    /\ steps' = steps + 1
    /\ UNCHANGED <<use_crc, live, called, warm, na_given, borrow>>

\* key_hash of the key numbered id, the bytes pad after it in memory.
LayoutHash(id, pad) ==
    /\ steps < MaxSteps
    /\ cache' = key_hash(cache, LayoutKey(cache, id, pad)).cache
    /\ last' = [op |-> "key_hash", item |-> NULL,
                key |-> LayoutKey(cache, id, pad), value |-> <<>>,
                hash |-> key_hash(cache, LayoutKey(cache, id, pad)).hash, pre |-> cache]
    /\ steps' = steps + 1
    /\ UNCHANGED <<use_crc, live, called, warm, na_given, borrow>>

LayoutNext ==
    \/ \E item_index \in {0, 1, cache.max_items - 1}, id \in {1, 2}, n \in {1, 2} :
          LayoutStore(item_index, id, n)
    \/ \E id \in {1, 2}, pad \in {0, 255} : LayoutHash(id, pad)

LayoutSpec == LayoutCreate /\ [][LayoutNext]_vars

(***************************************************************************)
(* A long history of Put and Lookup calls on one cache without a filler:   *)
(* the cache of 16-byte keys is filled, a key of the full cache is put     *)
(* again, and Puts of a key the cache holds take the eviction cursor round *)
(* the directory; the calls of the callers follow, among them those that  *)
(* make the directory smaller.                                             *)
(***************************************************************************)

\* The Puts before the calls of the callers: those that fill the cache, the
\* Put of the second key again, and 23 Puts of the last key, after which the
\* cursor is at the last slot in use.
StalePrefix ==
    LET w == WarmIds(FALSE, FALSE)
    IN  w \o <<w[2]>> \o [i \in 1..23 |-> w[Len(w)]]

StaleCreate ==
    /\ cache = ihtCacheCreate(MIN_CAPACITY, FAST_KEY_SIZE, 8, "none")
    /\ use_crc = FALSE
    /\ last = [op |-> "Create", key |-> <<>>, value |-> <<>>, ret |-> TRUE,
               out |-> <<>>, hang |-> FALSE, evicted |-> NULL, filled |-> FALSE,
               pre |-> <<>>, calls |-> <<>>]
    /\ live = <<>>
    /\ called = {}
    /\ warm = StalePrefix
    /\ steps = 0
    /\ na_given = <<>>
    /\ borrow = NoBorrow

StaleNext ==
    \/ \E key \in NextKeys, value \in NextValues : Put(key, value)
    \/ \E key \in NextKeys : Lookup(key)
    \/ SetMaxLoadFactor(<<3, 4>>)
    \/ Reconfigure

StaleSpec == StaleCreate /\ [][StaleNext]_vars

(***************************************************************************)
(* The properties.                                                         *)
(***************************************************************************)

Slots == DOMAIN cache.states

UsedSlots == {s \in Slots : is_slot_used(cache, s)}

\* A caller's buffer with the key of key_size bytes k.
Buf(c, k) ==
    [i \in 1..(IF c.key_size > FAST_KEY_SIZE THEN c.key_size ELSE FAST_KEY_SIZE) |->
        IF i <= c.key_size THEN k[i] ELSE 0]

\* The buffers of all the keys of the callers of the cache.
AllKeys == {Key(cache, id) : id \in Ids(~cache.fast_key, use_crc)}

FetchStyle == {"Fetch", "Get", "Get_Fast"}

\* The last call is a fetch-style call or a Lookup that found the key in the
\* cache.
LastHit ==
    /\ last.op \in FetchStyle \cup {"Lookup"}
    /\ ~last.hang
    /\ ~last.filled
    /\ IF last.op = "Get" THEN last.ret # NULL ELSE last.ret

\* The value the last call, a fetch-style call, returned (<<>>: none).
LastValue ==
    IF last.hang THEN <<>>
    ELSE IF last.op = "Fetch" THEN (IF last.ret THEN last.out ELSE <<>>)
    ELSE IF last.op = "Get"
    THEN (IF last.ret # NULL THEN item_value(cache, last.ret) ELSE <<>>)
    ELSE IF last.ret THEN Bytes(last.out, 0, cache.value_size) ELSE <<>>

\* C1: with a producer f and no Put ever called, every Fetch, Get and Get_Fast
\* returns, succeeds and yields f(key), evictions or not.
C1_Memoization ==
    ("Put" \notin called /\ cache.filler = "f" /\ last.op \in FetchStyle
        /\ filler_ok(cache, last.key))
    => LastValue = filler_value(cache, last.key)

\* C1's case: a fetch-style call that missed on a full cache, evicted a victim,
\* and returned the produced value.
C1_Witness ==
    /\ "Put" \notin called /\ cache.filler = "f" /\ last.op \in FetchStyle
    /\ last.evicted # NULL
    /\ cache.stats.evictions.count >= 2
    /\ LastValue = filler_value(cache, last.key)

\* C2: right after Put(k, v), Lookup(k) succeeds with v, and Get(k) returns
\* an item whose value is v.
C2_PutLookupRoundTrip ==
    last.op = "Put"
    => /\ ~last.hang /\ last.ret
       /\ LET r == ihtCacheLookup(cache, last.key, OutInit(cache))
          IN  ~r.hang /\ r.ret /\ r.out = last.value
       /\ LET g == ihtCacheGet(cache, last.key)
          IN  ~g.hang /\ g.ret # NULL /\ item_value(g.cache, g.ret) = last.value

\* C2's case: a Put on a full cache that evicted a victim, and a Lookup after
\* it that returns the value put.
C2_Witness ==
    /\ last.op = "Put" /\ last.evicted # NULL
    /\ last.pre.stats.evictions.count >= 1
    /\ ihtCacheLookup(cache, last.key, OutInit(cache)).out = last.value

\* C3: after Put, Fetch and Lookup calls only, a pair (k, v) stored, k since
\* neither overwritten nor evicted as the victim, is found by Lookup(k), with
\* the value v.
C3_RetentionUntilEviction ==
    called \subseteq {"Put", "Fetch", "Lookup"}
    => \A k \in DOMAIN live :
          LET r == ihtCacheLookup(cache, Buf(cache, k), OutInit(cache))
          IN  ~r.hang /\ r.ret /\ r.out = live[k]

\* C4: Put(k, v2) in a state in which Lookup(k) hits leaves item_count and
\* adds.count as they were, adds 1 to updates.count, and Lookup(k) returns v2.
C4_PutExistingIsUpdate ==
    (last.op = "Put" /\ lookup_entry(last.pre, last.key).e # NULL)
    => /\ ~last.hang
       /\ cache.item_count = last.pre.item_count
       /\ cache.stats.updates.count = last.pre.stats.updates.count + 1
       /\ cache.stats.adds.count = last.pre.stats.adds.count
       /\ LET r == ihtCacheLookup(cache, last.key, OutInit(cache))
          IN  r.ret /\ r.out = last.value

\* C5: item_count is the number of the slots in use, and these slots have
\* item indexes in 0..item_count-1, no two the same.
C5_DirectoryPoolConsistency ==
    /\ cache.item_count = Cardinality(UsedSlots)
    /\ \A s \in UsedSlots :
          /\ cache.entries[s].item_index >= 0
          /\ cache.entries[s].item_index < cache.item_count
    /\ \A s, t \in UsedSlots :
          s # t => cache.entries[s].item_index # cache.entries[t].item_index

\* C5's case: a full cache in which a victim was evicted and its item reused.
C5_Witness ==
    /\ last.evicted # NULL
    /\ cache.item_count = cache.max_items
    /\ Cardinality(UsedSlots) = cache.max_items
    /\ last.op = "Put"

\* C6: 0 <= item_count <= max_items between the calls.
C6_CapacityBound ==
    /\ 0 <= cache.item_count
    /\ cache.item_count <= cache.max_items

\* C6's case: a call that inserted into a full cache, evicting a victim, and
\* then a Reconfigure of the full cache.
C6_Witness ==
    /\ last.op = "Reconfigure"
    /\ last.pre.item_count = last.pre.max_items
    /\ last.pre.stats.evictions.count >= 1
    /\ cache.item_count = 0

\* The slots a probe for the key stored in the slot s in use passes before it
\* reaches s: those from the key's home slot up to s, s not included.
ProbePath(c, s) ==
    LET k == item_key(c, c.entries[s].item_index)
        home == MaskIndex(c, key_hash(c, Buf(c, k)).hash)
        d == (s - home) % c.max_entries
    IN  {(home + j) % c.max_entries : j \in 0..(d - 1)}

\* C7: every slot in use is reached from the home slot of its key by linear
\* probing without passing an EMPTY slot.
C7_ProbeChainReachability ==
    \A s \in UsedSlots :
        \A t \in ProbePath(cache, s) : cache.states[t] # SLOT_EMPTY

\* C8: every slot in use has an item index in 0..item_count-1 and the hash of
\* the key now stored in its item.
C8_EntryValidity ==
    \A s \in UsedSlots :
        /\ cache.entries[s].item_index >= 0
        /\ cache.entries[s].item_index < cache.item_count
        /\ cache.entries[s].hash_value =
              key_hash(cache, Buf(cache, item_key(cache, cache.entries[s].item_index))).hash

\* C8's case: an entry written over a victim's, whose item it reuses for
\* another key, on a cache that had evicted before.
C8_Witness ==
    /\ last.op = "Fetch" /\ last.filled /\ last.evicted # NULL
    /\ last.pre.stats.evictions.count >= 1
    /\ \E s \in UsedSlots :
          /\ item_key(cache, cache.entries[s].item_index) = KeyOf(cache, last.key)
          /\ item_key(last.pre, cache.entries[s].item_index) # KeyOf(cache, last.key)

C10_RemoveAllEmpties ==
    /\ last.op = "RemoveAll"
       => /\ cache.item_count = 0
          /\ \A s \in Slots : cache.states[s] = SLOT_EMPTY
    /\ (last.op \in {"RemoveAll", "Lookup"} /\ \A s \in Slots : cache.states[s] = SLOT_EMPTY)
       => \A key \in AllKeys :
             LET r == ihtCacheLookup(cache, key, OutInit(cache))
             IN  ~r.hang /\ ~r.ret /\ r.out = OutInit(cache)

\* C10's case: a Lookup of a key of the warm-up prefix that misses after a
\* RemoveAll of the full cache.
C10_Witness ==
    /\ last.op = "Lookup" /\ ~last.ret
    /\ "RemoveAll" \in called /\ "Reconfigure" \notin called
    /\ cache.item_count = 0
    /\ cache.stats.adds.count = cache.max_items
    /\ last.key = Key(cache, WarmIds(~cache.fast_key, use_crc)[1])

\* C11: a Fetch or a Lookup that returns false leaves the caller's value_out
\* buffer as it was before the call.
C11_NoOutputOnFailure ==
    (last.op \in {"Fetch", "Lookup"} /\ ~last.hang /\ ~last.ret)
    => last.out = OutInit(last.pre)

\* C11's case: a Fetch that missed on a cache with items, called the filler,
\* which failed, and returned false.
C11_Witness ==
    /\ last.op = "Fetch" /\ ~last.hang /\ ~last.ret
    /\ last.pre.item_count > 0
    /\ Len(last.calls) = 1 /\ last.calls[1].fn = "filler"
    /\ last.out = OutInit(last.pre)

\* The last call, a fetch-style call, did not find its key in the cache.
LastMissed ==
    /\ last.op \in FetchStyle
    /\ ~last.hang
    /\ IF last.op = "Get_Fast"
       THEN fast_lookup_entry(last.pre, Bytes(last.key, 0, FAST_KEY_SIZE)).e = NULL
       ELSE lookup_entry(last.pre, last.key).e = NULL

\* The last call, a fetch-style call, returned its failure signal.
LastFailed == IF last.op = "Get" THEN last.ret = NULL ELSE ~last.ret

FillerCalls == Cardinality({i \in DOMAIN last.calls : last.calls[i].fn = "filler"})

\* C13: Lookup and Put never call the filler; Fetch, Get and Get_Fast call
\* the filler registered exactly once, with the key, when the key misses, and
\* never when it hits.
C13_ProducerInvocationDiscipline ==
    /\ last.op \in {"Lookup", "Put"} => FillerCalls = 0
    /\ (last.op \in FetchStyle /\ ~last.hang)
       => IF LastMissed /\ last.pre.filler # "none"
          THEN /\ FillerCalls = 1
               /\ last.calls[1] = [fn |-> "filler", arg |-> KeyOf(last.pre, last.key)]
          ELSE FillerCalls = 0

\* C13's case: a Get_Fast that missed on a full cache with a filler, called
\* the filler once and stored its value over a victim's.
C13_Witness ==
    /\ last.op = "Get_Fast" /\ LastMissed /\ last.pre.filler = "f"
    /\ last.evicted # NULL /\ last.filled
    /\ FillerCalls = 1 /\ Len(last.calls) = 2

C15_BorrowValidityOfGet ==
    borrow.item # NULL
    => /\ borrow.item \in DOMAIN cache.items
       /\ item_key(cache, borrow.item) = borrow.key
       /\ item_value(cache, borrow.item) = borrow.value
       /\ \E s \in UsedSlots : cache.entries[s].item_index = borrow.item

\* C15's case: a pointer obtained by a Get on a full cache, then a fetch-style
\* call of another key that the filler failed on; the item is as it was.
C15_Witness ==
    /\ borrow.item # NULL
    /\ last.op \in FetchStyle /\ LastMissed /\ LastFailed
    /\ Len(last.calls) = 1
    /\ KeyOf(cache, last.key) # borrow.key
    /\ cache.item_count = cache.max_items
    /\ item_value(cache, borrow.item) = borrow.value

\* C16: with a value destroyer set, a Put, Fetch, Get or Get_Fast that evicts
\* an entry calls the destroyer exactly once, with the value of the victim's
\* item, before store_item writes the new entry to that item.
C16_ValueDestroyerOnEviction ==
    (last.evicted # NULL /\ last.pre.value_destroyer)
    => LET victim_item == last.pre.entries[last.evicted].item_index
           destroyed == {i \in DOMAIN last.calls : last.calls[i].fn = "value_destroyer"}
       IN  /\ Cardinality(destroyed) = 1
           /\ \A i \in destroyed :
                 /\ last.calls[i].arg.item = victim_item
                 /\ last.calls[i].arg.value = item_value(last.pre, victim_item)
                 /\ \E j \in DOMAIN last.calls :
                       /\ j > i
                       /\ last.calls[j].fn = "store_item"
                       /\ last.calls[j].arg = victim_item

\* C17: RemoveAll, Reconfigure and Destroy call the value destroyer, when one
\* is set, once for every slot in use before the call, with the value of the
\* slot's item, and before any bzero or free; Destroy then calls the context
\* destroyer, when one is set, once, after the value destroyer's calls;
\* RemoveAll and Reconfigure never call the context destroyer.
C17_TeardownOrdering ==
    last.op \in {"RemoveAll", "Reconfigure", "Destroy"}
    => LET pre == last.pre
           at(fn) == {i \in DOMAIN last.calls : last.calls[i].fn = fn}
           occupied == {s \in DOMAIN pre.states : is_slot_used(pre, s)}
       IN  /\ Cardinality(at("value_destroyer")) =
                 IF pre.value_destroyer THEN Cardinality(occupied) ELSE 0
           /\ pre.value_destroyer
              => \A s \in occupied :
                    Cardinality({i \in at("value_destroyer") :
                        /\ last.calls[i].arg.item = pre.entries[s].item_index
                        /\ last.calls[i].arg.value =
                              item_value(pre, pre.entries[s].item_index)}) = 1
           /\ \A i \in at("value_destroyer"), j \in at("bzero") \cup at("free") : i < j
           /\ Cardinality(at("bzero")) = 3
           /\ Cardinality(at("cxt_destroyer")) =
                 IF last.op = "Destroy" /\ pre.cxt_destroyer THEN 1 ELSE 0
           /\ \A i \in at("value_destroyer"), j \in at("cxt_destroyer") : i < j

\* C17's case: the Destroy of a full cache with both destroyers set: 25 calls
\* of the value destroyer, then the context destroyer's.
C17_Witness ==
    /\ last.op = "Destroy"
    /\ last.pre.value_destroyer /\ last.pre.cxt_destroyer
    /\ last.pre.item_count = last.pre.max_items
    /\ last.pre.stats.evictions.count >= 1
    /\ Cardinality({i \in DOMAIN last.calls :
                       last.calls[i].fn = "value_destroyer"}) = last.pre.max_items
    /\ Cardinality({i \in DOMAIN last.calls : last.calls[i].fn = "cxt_destroyer"}) = 1

\* C18: an ihtCacheCreate in which an allocation fails returns a null handle
\* and makes no access through the null pointer the allocation returned.
C18_AllocationFailureReported ==
    (last.op = "Create" /\ last.value # <<>>)
    => /\ ~last.ret
       /\ \A i \in DOMAIN last.calls : last.calls[i].fn # "null_access"

\* C19: after Reconfigure the cache is, statistics aside, the cache
\* ihtCacheCreate makes with the same min_capacity, key and value sizes and
\* filler, given the same load factor, destroyers and NA value: the same
\* entries, states, items, item_count, layout fields and evict_index.
C19_ReconfigureIsDestroyThenCreate ==
    last.op = "Reconfigure"
    => LET pre == last.pre
           created == ihtCacheCreate(pre.min_capacity, pre.key_size, pre.value_size,
                                     pre.filler)
           fresh == ihtCacheReconfigure(
                        [created EXCEPT !.max_load_factor = pre.max_load_factor,
                                        !.value_destroyer = pre.value_destroyer,
                                        !.cxt_destroyer = pre.cxt_destroyer,
                                        !.na_value = pre.na_value])
       IN  /\ created.evict_index = 0
           /\ cache = [fresh EXCEPT !.stats = cache.stats, !.work_key = cache.work_key]

\* C20: after ihtCacheCreate or ihtCacheReconfigure with min_capacity >= 0
\* and a load factor L, 0 < L < 1, the call has returned, max_entries is the
\* smallest power of two >= ceil(max(min_capacity, 16) / L), entries_mask is
\* max_entries - 1, max_items is floor(max_entries * L), and
\* max(min_capacity, 16) <= max_items < max_entries.
C20_Sizing ==
    last.op \in {"Create", "Reconfigure"}
    => LET capacity == IF cache.min_capacity < 16 THEN 16 ELSE cache.min_capacity
           L == cache.max_load_factor
       IN  /\ ~last.hang
           /\ \E k \in 0..30 : cache.max_entries = 2^k
           \* max_entries >= capacity / L, and no smaller power of two is
           /\ capacity <= FloorProduct(cache.max_entries, L)
           /\ cache.max_entries = 1
              \/ capacity > FloorProduct(cache.max_entries \div 2, L)
           /\ cache.entries_mask = cache.max_entries - 1
           /\ cache.max_items = FloorProduct(cache.max_entries, L)
           /\ capacity <= cache.max_items
           /\ cache.max_items < cache.max_entries

\* The keys in the slots in use of the cache c.
SlotKeys(c) ==
    {item_key(c, c.entries[s].item_index) :
        s \in {t \in DOMAIN c.states : is_slot_used(c, t)}}

\* C21: after a Fetch that missed and whose producer called Put of the same
\* cache for the same key, one slot in use and no more holds the
\* key, every other key in a slot after the producer's call is in a slot
\* still, item_count is the number of the different item indexes of the
\* slots in use, and Lookup of the key gives the value of the outer producer.
C21_ReentrantProducer ==
    (last.op = "FetchReentrant" /\ lookup_entry(last.pre, last.key).e = NULL)
    => LET inner == ihtCachePut(lookup_entry(last.pre, last.key).cache,
                                last.key, Value(last.pre, 1))
           Holds(mid) ==
               /\ ~last.hang
               /\ Cardinality({s \in UsedSlots :
                      key_equals(cache, item_key(cache, cache.entries[s].item_index),
                                 last.key)}) = 1
               /\ SlotKeys(mid) \subseteq SlotKeys(cache)
               /\ cache.item_count
                      = Cardinality({cache.entries[s].item_index : s \in UsedSlots})
               /\ LET r == ihtCacheLookup(cache, last.key, OutInit(cache))
                  IN  r.ret /\ r.out = filler_value(last.pre, last.key)
       IN  Holds(inner.cache)

\* C22: with a load factor above 0 and below 1 every Put returns: its
\* eviction scan, if any, ends, and so does its probe.
C22_Termination ==
    (last.op = "Put" /\ 0 < cache.max_load_factor[1]
                     /\ cache.max_load_factor[1] < cache.max_load_factor[2])
    => ~last.hang

\* C23: from an empty cache on, a Put, Fetch or Get with which the number of
\* the different keys stored so far is at most max_items returns, leaves
\* evictions.count 0, loses no key stored before, and every key stored is
\* found. (Up to the first call after the calls that fill the cache, the
\* keys stored so far are the keys in the slots before the call.)
C23_NoEvictionBelowCapacity ==
    (/\ steps <= 1
     /\ last.op \in {"Put", "Fetch", "Get"}
     /\ ~LastFailed
     /\ Cardinality(SlotKeys(last.pre) \cup {KeyOf(last.pre, last.key)})
            <= last.pre.max_items)
    => /\ ~last.hang
       /\ cache.stats.evictions.count = 0
       /\ SlotKeys(last.pre) \subseteq SlotKeys(cache)
       /\ \A k \in SlotKeys(cache) : lookup_entry(cache, Buf(cache, k)).e # NULL

\* C24: in every state, and in that state with its slots in use aged to
\* MAX_AGE, lookup_entry of a key k of a caller, of hash h, walks the slots
\* from h & mask on and ends at the first slot that is not in use (a miss) or
\* is in use with entry.hash = h and the key k (a hit). With d the slots
\* passed before: a hit gives that slot, ages it by 1 unless it is at
\* MAX_AGE, and bumps hits by (1, d); a miss gives NULL and bumps misses by
\* (1, d); lookups grows by 1 either way, and nothing else of the directory,
\* the items and the counters changes.
C24_LookupProbeSemantics ==
    LET Probe(c, k) ==
            LET h == key_hash(c, k).hash
                n == c.max_entries
                home == MaskIndex(c, h)
                Ends(s) == \/ ~is_slot_used(c, s)
                           \/ /\ c.entries[s].hash_value = h
                              /\ key_equals(c, item_key(c, c.entries[s].item_index), k)
                ds == {d \in 0..(n - 1) : Ends((home + d) % n)}
                Holds(r, d, s) ==
                    LET hit == is_slot_used(c, s)
                    IN  /\ ~r.hang
                        /\ r.e = (IF hit THEN s ELSE NULL)
                        /\ r.cache.stats.lookups = c.stats.lookups + 1
                        /\ r.cache.states =
                               (IF hit /\ c.states[s] # SLOT_MAX_AGE
                                THEN [c.states EXCEPT ![s] = @ + 1]
                                ELSE c.states)
                        /\ r.cache.stats.hits =
                               (IF hit THEN [count |-> c.stats.hits.count + 1,
                                             scans |-> c.stats.hits.scans + d]
                                ELSE c.stats.hits)
                        /\ r.cache.stats.misses =
                               (IF hit THEN c.stats.misses
                                ELSE [count |-> c.stats.misses.count + 1,
                                      scans |-> c.stats.misses.scans + d])
                        /\ [r.cache EXCEPT !.work_key = c.work_key]
                               = [c EXCEPT !.states = r.cache.states,
                                           !.stats.lookups = r.cache.stats.lookups,
                                           !.stats.hits = r.cache.stats.hits,
                                           !.stats.misses = r.cache.stats.misses]
                First(r, d) == Holds(r, d, (home + d) % n)
            IN  ds # {} => First(lookup_entry(c, k),
                                 CHOOSE d \in ds : \A e \in ds : d <= e)
        Aged == [cache EXCEPT !.states =
                    [s \in Slots |-> IF is_slot_used(cache, s)
                                     THEN SLOT_MAX_AGE ELSE cache.states[s]]]
    IN  Slots # {}
        => \A k \in NextKeys \cup {Key(cache, CollidingId(~cache.fast_key, use_crc))} :
              Probe(cache, k) /\ Probe(Aged, k)

\* A key is found after a walk past slots of other keys, and a key is missed
\* after one.
C24_Witness ==
    /\ Slots # {}
    /\ \E k \in NextKeys \cup {Key(cache, CollidingId(~cache.fast_key, use_crc))} : /\ lookup_entry(cache, k).e # NULL
                          /\ lookup_entry(cache, k).e # MaskIndex(cache, key_hash(cache, k).hash)
    /\ \E k \in NextKeys \cup {Key(cache, CollidingId(~cache.fast_key, use_crc))} : /\ lookup_entry(cache, k).e = NULL
                          /\ is_slot_used(cache, MaskIndex(cache, key_hash(cache, k).hash))

\* C25: on a fast-mode cache with 16-byte keys, in every state and in that
\* state with its slots in use aged to MAX_AGE, fast_lookup_entry and
\* lookup_entry of a key give the same slot (or both none) and the same
\* cache after (slot states, lookups, hits and misses among it), and
\* ihtCacheGet_Fast and ihtCacheFetch of the key leave the same cache,
\* succeed or fail together, and on success give the same value.
C25_FastLookupEqualsGenericLookup ==
    LET Same(c, k) ==
            LET SameEntry(f, g) == f.e = g.e /\ f.hang = g.hang /\ f.cache = g.cache
                SameCall(f, g) ==
                    /\ f.hang = g.hang
                    /\ f.cache = g.cache
                    /\ f.ret = g.ret
                    /\ f.ret => Bytes(f.out, 0, c.value_size) = g.out
            IN  /\ SameEntry(fast_lookup_entry(c, Bytes(k, 0, FAST_KEY_SIZE)),
                             lookup_entry(c, k))
                /\ SameCall(ihtCacheGet_Fast(c, Bytes(k, 0, FAST_KEY_SIZE)),
                            ihtCacheFetch(c, k, OutInit(c)))
        Aged == [cache EXCEPT !.states =
                    [s \in Slots |-> IF is_slot_used(cache, s)
                                     THEN SLOT_MAX_AGE ELSE cache.states[s]]]
    IN  (/\ cache.fast_mode /\ cache.key_size = FAST_KEY_SIZE
         /\ Slots # {} /\ ~(last.op = "Create" /\ last.value # <<>>))
        => \A k \in NextKeys \cup {Key(cache, CollidingId(~cache.fast_key, use_crc))} :
              Same(cache, k) /\ Same(Aged, k)

\* On a full fast-mode cache with 16-byte keys and a filler, the fast lookup
\* finds one key in its home slot, another after a walk, misses a third after
\* a walk, and the filler fails on a fourth.
C25_Witness ==
    /\ cache.fast_mode /\ cache.key_size = FAST_KEY_SIZE
    /\ Slots # {} /\ ~(last.op = "Create" /\ last.value # <<>>)
    /\ cache.filler = "f"
    /\ cache.item_count = cache.max_items
    /\ \E k \in NextKeys :
          fast_lookup_entry(cache, Bytes(k, 0, FAST_KEY_SIZE)).e
              = MaskIndex(cache, key_hash(cache, k).hash)
    /\ \E k \in NextKeys :
          /\ fast_lookup_entry(cache, Bytes(k, 0, FAST_KEY_SIZE)).e # NULL
          /\ fast_lookup_entry(cache, Bytes(k, 0, FAST_KEY_SIZE)).e
                 # MaskIndex(cache, key_hash(cache, k).hash)
    /\ \E k \in NextKeys \cup {Key(cache, CollidingId(~cache.fast_key, use_crc))} :
          /\ fast_lookup_entry(cache, Bytes(k, 0, FAST_KEY_SIZE)).e = NULL
          /\ is_slot_used(cache, MaskIndex(cache, key_hash(cache, k).hash))
    /\ \E k \in NextKeys : ~ihtCacheGet_Fast(cache, Bytes(k, 0, FAST_KEY_SIZE)).ret

\* C26: in every state with item_count < max_items, alloc_new_entry of a key
\* k of a caller that is not found on its probe chain gives the first slot
\* not in use on the probe from hash(k) & mask, writes the entry
\* {hash(k), item_index = the old item_count} there, sets the state of that
\* slot to MIN_AGE, adds 1 to item_count and to adds.count (and the slots
\* passed to adds.scans), and changes no other slot, no item, not
\* evict_index and nothing else.
C26_InsertBelowCapacity ==
    (/\ Slots # {} /\ ~(last.op = "Create" /\ last.value # <<>>)
     /\ cache.item_count < cache.max_items)
    => \A k \in NextKeys \cup {Key(cache, CollidingId(~cache.fast_key, use_crc))} :
          LET h == key_hash(cache, k).hash
              n == cache.max_entries
              home == MaskIndex(cache, h)
              ds == {d \in 0..(n - 1) : ~is_slot_used(cache, (home + d) % n)}
              Holds(r, d, s) ==
                  /\ ~r.hang
                  /\ r.e = s
                  /\ r.cache.entries =
                         [cache.entries EXCEPT
                             ![s] = [hash_value |-> h, item_index |-> cache.item_count]]
                  /\ r.cache.states = [cache.states EXCEPT ![s] = SLOT_MIN_AGE]
                  /\ r.cache.item_count = cache.item_count + 1
                  /\ r.cache.stats.adds = [count |-> cache.stats.adds.count + 1,
                                           scans |-> cache.stats.adds.scans + d]
                  /\ r.cache.items = cache.items
                  /\ r.cache.evict_index = cache.evict_index
                  /\ [r.cache EXCEPT !.work_key = cache.work_key]
                         = [cache EXCEPT !.entries = r.cache.entries,
                                         !.states = r.cache.states,
                                         !.item_count = r.cache.item_count,
                                         !.stats.adds = r.cache.stats.adds]
              First(r, d) == Holds(r, d, (home + d) % n)
          IN  lookup_entry(cache, k).e = NULL
              => First(alloc_new_entry(cache, k),
                       CHOOSE d \in ds : \A e \in ds : d <= e)

\* A cache with a free item in which a key that is not stored has its home
\* slot in use by another key.
C26_Witness ==
    /\ Slots # {} /\ ~(last.op = "Create" /\ last.value # <<>>)
    /\ 0 < cache.item_count /\ cache.item_count < cache.max_items
    /\ \E k \in NextKeys \cup {Key(cache, CollidingId(~cache.fast_key, use_crc))} :
          /\ lookup_entry(cache, k).e = NULL
          /\ is_slot_used(cache, MaskIndex(cache, key_hash(cache, k).hash))
          /\ alloc_new_entry(cache, k).e # MaskIndex(cache, key_hash(cache, k).hash)

\* C27, as stated: after a Put, or a Fetch or Get that filled, of a key that
\* was in no slot of a cache with item_count = max_items: one slot that was
\* in use and no more is not in use any longer, it is the slot find_victim
\* chose, the entry of the key has the item index that slot had, item_count
\* is max_items again, and evictions.count and adds.count are one higher
\* each.
C27_InsertAtCapacity_AsStated ==
    (/\ last.op \in {"Put", "Fetch", "Get"}
     /\ last.filled /\ ~last.hang
     /\ last.pre.item_count = last.pre.max_items
     /\ KeyOf(last.pre, last.key) \notin SlotKeys(last.pre))
    => LET victim == find_victim(last.pre).victim_index
           e == lookup_entry(cache, last.key).e
       IN  /\ {s \in Slots : is_slot_used(last.pre, s) /\ ~is_slot_used(cache, s)}
                  = {victim}
           /\ e # NULL
           /\ cache.entries[e].item_index = last.pre.entries[victim].item_index
           /\ cache.item_count = cache.max_items
           /\ cache.stats.evictions.count = last.pre.stats.evictions.count + 1
           /\ cache.stats.adds.count = last.pre.stats.adds.count + 1

\* C27: after a Put, or a Fetch or Get that filled, of a key that was in no
\* slot of a cache with item_count = max_items: the entry the slot
\* find_victim chose had is gone, that slot being either not in use any
\* longer or, when the probe of the key ends at it, the slot of the new
\* entry; every other slot that was in use is in use still; the entry of the
\* key has the item index the victim had, item_count is max_items again, and
\* evictions.count and adds.count are one higher each.
C27_InsertAtCapacity ==
    (/\ last.op \in {"Put", "Fetch", "Get"}
     /\ last.filled /\ ~last.hang
     /\ last.pre.item_count = last.pre.max_items
     /\ KeyOf(last.pre, last.key) \notin SlotKeys(last.pre))
    => LET victim == find_victim(last.pre).victim_index
           e == lookup_entry(cache, last.key).e
       IN  /\ is_slot_used(last.pre, victim)
           /\ e # NULL
           /\ {s \in Slots : is_slot_used(last.pre, s) /\ ~is_slot_used(cache, s)}
                  = (IF e = victim THEN {} ELSE {victim})
           /\ {s \in Slots : ~is_slot_used(last.pre, s) /\ is_slot_used(cache, s)}
                  = (IF e = victim THEN {} ELSE {e})
           /\ cache.entries[e].item_index = last.pre.entries[victim].item_index
           /\ cache.item_count = cache.max_items
           /\ cache.stats.evictions.count = last.pre.stats.evictions.count + 1
           /\ cache.stats.adds.count = last.pre.stats.adds.count + 1

\* A Fetch of a key in no slot of a full cache took the slot of its victim
\* for the new entry.
C27_Witness ==
    /\ last.op = "Fetch"
    /\ last.filled /\ ~last.hang
    /\ last.pre.item_count = last.pre.max_items
    /\ KeyOf(last.pre, last.key) \notin SlotKeys(last.pre)
    /\ lookup_entry(cache, last.key).e = find_victim(last.pre).victim_index

\* C28: after a Put (alloc_new_entry, then store_item) of a key that
\* lookup_entry finds, in a cache with item_count = max_items: the victim
\* find_victim chose is in use again with its entry, the entries and
\* item_count are as before, the item the key had holds the value put, and
\* every key of a caller that was found before is found after.
C28_VictimResurrection ==
    (/\ last.op = "Put" /\ ~last.hang
     /\ last.pre.item_count = last.pre.max_items
     /\ lookup_entry(last.pre, last.key).e # NULL)
    => LET victim == find_victim(last.pre).victim_index
           e == lookup_entry(last.pre, last.key).e
       IN  /\ is_slot_used(cache, victim)
           /\ cache.entries = last.pre.entries
           /\ cache.item_count = last.pre.item_count
           /\ item_value(cache, last.pre.entries[e].item_index) = last.value
           /\ \A k \in AllKeys : lookup_entry(last.pre, k).e # NULL
                                 => lookup_entry(cache, k).e # NULL

\* The cache c with the slots in use at ages that hits lead to: from base up
\* to SLOT_MAX_AGE, by the slot number and p.
AgedBy(c, p, base) ==
    [c EXCEPT !.states =
        [s \in DOMAIN c.states |->
            IF is_slot_used(c, s)
            THEN base + ((s * p) % (SLOT_MAX_AGE + 1 - base))
            ELSE c.states[s]]]

\* C29: in every state with MAX_EVICTION_SEARCH slots in use or more (a full
\* cache has as many), at the ages of the state and at the ages hits lead
\* to, find_victim visits the slots from evict_index on,
\* examines the slots in use among them, at most MAX_EVICTION_SEARCH, ends
\* with the first examined slot found at MIN_AGE or else with the 16th
\* examined, and gives the first of the examined slots whose state when
\* examined (its state less 1 for each earlier examination of the scan) was
\* the least; evict_index is then the slot after the last one visited and
\* evictions.count is one higher.
C29_VictimSelection ==
    (/\ Cardinality(UsedSlots) >= MAX_EVICTION_SEARCH
     /\ ~(last.op = "Create" /\ last.value # <<>>))
    => \A c \in {cache} \cup {AgedBy(cache, p, base) :
                               p \in 1..3, base \in {SLOT_MIN_AGE, SLOT_MIN_AGE + 1}} :
        LET n == c.max_entries
            Visit(j) == (c.evict_index + j) % n
            Examined(j) == is_slot_used(c, Visit(j))
            At(j) == c.states[Visit(j)] - (j \div n)
            Holds(r, m) ==
                LET ex == {j \in 0..(m - 1) : Examined(j)}
                    least == CHOOSE j \in ex :
                                \A i \in ex : At(j) < At(i) \/ (At(j) = At(i) /\ j <= i)
                IN  /\ ~r.hang
                    /\ m >= 1
                    /\ Examined(m - 1)
                    /\ Cardinality(ex) <= MAX_EVICTION_SEARCH
                    /\ \A j \in ex : j < m - 1 => At(j) > SLOT_MIN_AGE
                    /\ At(m - 1) = SLOT_MIN_AGE \/ Cardinality(ex) = MAX_EVICTION_SEARCH
                    /\ r.victim_index = Visit(least)
                    /\ is_slot_used(c, r.victim_index)
                    /\ r.cache.evict_index = Visit(m)
                    /\ r.cache.stats.evictions.count = c.stats.evictions.count + 1
            Scanned(r) == Holds(r, r.cache.stats.evictions.scans - c.stats.evictions.scans)
        IN  Scanned(find_victim(c))

\* A full cache in which, at ages above MIN_AGE, the scan passes slots not in
\* use, spends its budget and gives a slot that is not the first it
\* examined; and in which, at ages from MIN_AGE, it ends before at a MIN_AGE
\* slot that is not the first it examined.
C29_Witness ==
    /\ UsedSlots # {}
    /\ cache.item_count = cache.max_items
    /\ LET c == AgedBy(cache, 2, SLOT_MIN_AGE + 1)
           r == find_victim(c)
       IN  /\ r.cache.stats.evictions.scans - c.stats.evictions.scans
                  > MAX_EVICTION_SEARCH
           /\ \E s \in UsedSlots :
                 /\ (s - c.evict_index) % c.max_entries
                        < (r.victim_index - c.evict_index) % c.max_entries
    /\ LET c == AgedBy(cache, 1, SLOT_MIN_AGE)
           r == find_victim(c)
       IN  /\ c.states[r.victim_index] = SLOT_MIN_AGE
           /\ \E s \in UsedSlots :
                 /\ (s - c.evict_index) % c.max_entries
                        < (r.victim_index - c.evict_index) % c.max_entries

\* C30: in every state with MAX_EVICTION_SEARCH slots in use or more, at the
\* ages of the state and at the ages hits lead to, a find_victim scan lowers
\* the state of a slot by 1 for each time it examined the slot, the
\* examination of a MIN_AGE slot that ends the scan apart (so also the state
\* of a slot taken as victim above MIN_AGE), and leaves every other state,
\* every entry and every item as they were.
C30_EvictionDecay ==
    (/\ Cardinality(UsedSlots) >= MAX_EVICTION_SEARCH
     /\ ~(last.op = "Create" /\ last.value # <<>>))
    => \A c \in {cache} \cup {AgedBy(cache, p, base) :
                               p \in 1..3, base \in {SLOT_MIN_AGE, SLOT_MIN_AGE + 1}} :
        LET n == c.max_entries
            Visit(j) == (c.evict_index + j) % n
            At(j) == c.states[Visit(j)] - (j \div n)
            Holds(r, m) ==
                LET Lowering(j) == /\ is_slot_used(c, Visit(j))
                                   /\ ~(j = m - 1 /\ At(j) = SLOT_MIN_AGE)
                IN  /\ ~r.hang
                    /\ \A s \in DOMAIN c.states :
                          r.cache.states[s]
                              = c.states[s]
                                - Cardinality(
                                      {j \in {((s - c.evict_index) % n) + k * n :
                                                 k \in 0..((m - 1) \div n)} :
                                          j < m /\ Lowering(j)})
                    /\ r.cache.entries = c.entries
                    /\ r.cache.items = c.items
            Scanned(r) == Holds(r, r.cache.stats.evictions.scans - c.stats.evictions.scans)
        IN  Scanned(find_victim(c))

\* A full cache in which, at ages from MIN_AGE, the scan takes a slot above
\* MIN_AGE as victim first and lowers it, and ends at a MIN_AGE slot it
\* leaves as it is; and in which, at ages above MIN_AGE, the victim is
\* lowered too.
C30_Witness ==
    /\ Cardinality(UsedSlots) >= MAX_EVICTION_SEARCH
    /\ cache.item_count = cache.max_items
    /\ \E p \in 1..3 :
          LET c == AgedBy(cache, p, SLOT_MIN_AGE)
              r == find_victim(c)
          IN  /\ c.states[r.victim_index] = SLOT_MIN_AGE
              /\ r.cache.states[r.victim_index] = SLOT_MIN_AGE
              /\ \E s \in UsedSlots : r.cache.states[s] = c.states[s] - 1
    /\ LET c == AgedBy(cache, 2, SLOT_MIN_AGE + 1)
           r == find_victim(c)
       IN  r.cache.states[r.victim_index] = c.states[r.victim_index] - 1


\* C31: for every key_size > 0 and value_size > 0 the key region and the value
\* region of an item are disjoint and inside [0, item_size), in fast mode
\* item_size = 32 with the offsets 0 and 16, and store_item leaves in the item
\* written its key and its value and changes no other byte of the pool.
C31_ItemLayout ==
    LET c == IF last.op = "store_item" THEN last.pre ELSE cache
        PoolByte(cc, a) == cc.items[a \div cc.item_size][(a % cc.item_size) + 1]
        key_begin == c.key_offset
        key_end == c.key_offset + c.key_size
        value_begin == c.value_offset
        value_end == c.value_offset + c.value_size
    IN  (c.key_size > 0 /\ c.value_size > 0)
        => /\ 0 <= key_begin /\ key_end <= c.item_size
           /\ 0 <= value_begin /\ value_end <= c.item_size
           /\ key_end <= value_begin \/ value_end <= key_begin
           /\ c.fast_mode
                => c.item_size = 32 /\ c.key_offset = 0 /\ c.value_offset = 16
           /\ last.op = "store_item"
                => \A a \in 0..(c.max_items * c.item_size - 1) :
                      LET at == a - last.item * c.item_size
                      IN  PoolByte(cache, a) =
                             IF key_begin <= at /\ at < key_end
                             THEN last.key[at - key_begin + 1]
                             ELSE IF value_begin <= at /\ at < value_end
                             THEN last.value[at - value_begin + 1]
                             ELSE PoolByte(c, a)


\* C33: for key_size > 16 the hash key_hash returns is that of the key_size
\* bytes of the key, the tail after the last full 8-byte lane extended with
\* zeros to 64 bits: it is the same whatever the bytes that follow the key in
\* the caller's memory.
C33_SoftwareHashReadsOnlyKey ==
    (last.op = "key_hash" /\ last.pre.key_size > FAST_KEY_SIZE)
    => \A pad \in {0, 255} :
          key_hash(last.pre,
                   [i \in DOMAIN last.key |->
                       IF i <= last.pre.key_size THEN last.key[i] ELSE pad]).hash
             = last.hash


\* C32: on a cache with key_size < 16, a call with a buffer whose bytes after
\* the first key_size are not zero hits or misses as the call with the same
\* first key_size bytes followed by zeros does, and gives the same value: on
\* ihtCacheLookup, ihtCacheFetch, ihtCacheGet and on ihtCacheGet_Fast.
C32_ShortKeyPaddingIndependence ==
    LET Padded(k) == [i \in DOMAIN k |-> IF i <= cache.key_size THEN k[i] ELSE 255]
        SameCall(f, g) == f.hang = g.hang /\ f.ret = g.ret /\ f.out = g.out
    IN  (/\ cache.short_key /\ cache.fast_mode
         /\ Slots # {} /\ ~(last.op = "Create" /\ last.value # <<>>))
        => \A k \in NextKeys :
              /\ SameCall(ihtCacheLookup(cache, Padded(k), OutInit(cache)),
                          ihtCacheLookup(cache, k, OutInit(cache)))
              /\ SameCall(ihtCacheFetch(cache, Padded(k), OutInit(cache)),
                          ihtCacheFetch(cache, k, OutInit(cache)))
              /\ SameCall(ihtCacheGet(cache, Padded(k)), ihtCacheGet(cache, k))
              /\ SameCall(ihtCacheGet_Fast(cache, Padded(k)), ihtCacheGet_Fast(cache, k))


\* C34: from a cache just created, with no RemoveAll, Reconfigure or
\* ClearStats (nor Destroy) among the calls, after every call that returned
\* item_count = adds.count - evictions.count.
C34_CounterAccounting ==
    (/\ called \cap {"RemoveAll", "Reconfigure", "ClearStats", "Destroy"} = {}
     /\ ~(last.op = "Create" /\ last.value # <<>>)
     /\ ~last.hang)
    => cache.item_count = cache.stats.adds.count - cache.stats.evictions.count


\* C35: in every state no two slots in use hold items with the same key.
C35_KeyUniqueness ==
    (Slots # {} /\ ~(last.op = "Create" /\ last.value # <<>>))
    => \A s, t \in UsedSlots :
          item_key(cache, cache.entries[s].item_index)
              = item_key(cache, cache.entries[t].item_index)
          => s = t


\* C36: on a cache without a filler, after Put and Lookup calls only, the
\* last of them Put(k, v): after one more Put, of another key, a Lookup(k)
\* that hits gives v, the value of the most recent Put of k.
C36_NoStaleValue ==
    (/\ cache.filler = "none" /\ called \subseteq {"Put", "Lookup"}
     /\ last.op = "Put" /\ ~last.hang)
    => \A id \in FreeIds(cache), n \in {1, 2} :
          LET after == ihtCachePut(cache, Key(cache, id), Value(cache, n))
              r == IF after.hang THEN after
                   ELSE ihtCacheLookup(after.cache, last.key, OutInit(cache))
          IN  (/\ Key(cache, id) # last.key
               /\ ~r.hang /\ r.ret)
              => r.out = last.value


\* C37: in every state of a cache (created, not destroyed), also after
\* ihtCacheSetMaxLoadFactor and an ihtCacheReconfigure that makes the
\* directory smaller, 0 <= evict_index < max_entries.
C37_EvictIndexInRange ==
    (~(last.op = "Create" /\ last.value # <<>>) /\ last.op # "Destroy")
    => (0 <= cache.evict_index /\ cache.evict_index < cache.max_entries)


\* C38: in every state of a cache lookups = hits.count + misses.count; an
\* ihtCacheLookup, ihtCacheFetch, ihtCacheGet or ihtCacheGet_Fast that
\* returns has added 1 to lookups, an ihtCachePut nothing;
\* ihtCacheClearStats leaves the three at 0.
C38_LookupCounterBalance ==
    (~(last.op = "Create" /\ last.value # <<>>) /\ last.op # "Destroy" /\ ~last.hang)
    => /\ cache.stats.lookups = cache.stats.hits.count + cache.stats.misses.count
       /\ last.op \in {"Lookup", "Fetch", "FetchReentrant", "Get", "Get_Fast"}
          => cache.stats.lookups = last.pre.stats.lookups + 1
       /\ last.op = "Put" => cache.stats.lookups = last.pre.stats.lookups
       /\ last.op = "ClearStats"
          => /\ cache.stats.lookups = 0
             /\ cache.stats.hits.count = 0
             /\ cache.stats.misses.count = 0

\* A Get_Fast hits after hits and misses of the calls before it.
C38_Witness ==
    /\ last.op = "Get_Fast" /\ ~last.hang /\ ~last.filled
    /\ last.pre.stats.hits.count >= 1
    /\ last.pre.stats.misses.count >= 1
    /\ cache.stats.hits.count = last.pre.stats.hits.count + 1
    /\ cache.stats.lookups = cache.stats.hits.count + cache.stats.misses.count


\* The cache after the call of last differs from the cache before it in at
\* most the fields named, the statistics in at most lookups, hits and misses,
\* and the states in at most the state of one slot in use that holds the key
\* of the call, one higher than before.
LookupFrame(fields) ==
    LET pre == last.pre
        changed == {s \in DOMAIN pre.states : cache.states[s] # pre.states[s]}
    IN  /\ \A f \in (DOMAIN pre) \ fields : cache[f] = pre[f]
        /\ DOMAIN cache.states = DOMAIN pre.states
        /\ cache.stats.adds = pre.stats.adds
        /\ cache.stats.updates = pre.stats.updates
        /\ cache.stats.evictions = pre.stats.evictions
        /\ Cardinality(changed) <= 1
        /\ \A s \in changed :
              /\ ihtCacheLookup(pre, last.key, OutInit(pre)).ret
              /\ is_slot_used(pre, s)
              /\ item_key(pre, pre.entries[s].item_index) = KeyOf(pre, last.key)
              /\ cache.states[s] = pre.states[s] + 1

\* The calls of the frame: an ihtCacheLookup, and an ihtCacheFetch,
\* ihtCacheGet or ihtCacheGet_Fast of a key that a lookup finds.
LookupFrameCall ==
    /\ ~last.hang
    /\ \/ last.op = "Lookup"
       \/ /\ last.op \in FetchStyle
          /\ ihtCacheLookup(last.pre, last.key, OutInit(last.pre)).ret

\* C39: an ihtCacheLookup, and an ihtCacheFetch, ihtCacheGet or
\* ihtCacheGet_Fast that hits, changes in the cache at most the state of the
\* one slot hit, by one, the counters lookups, hits and misses, and work_key,
\* the copy of a short key the hash is computed on; entries, items,
\* item_count, evict_index and all other fields and states are as before.
C39_LookupFrame ==
    LookupFrameCall => LookupFrame({"states", "stats", "work_key"})

\* An ihtCacheLookup of a short key hits: the state of its slot is raised and
\* work_key changed from the key of the call before.
C39_Witness ==
    /\ last.op = "Lookup" /\ ~last.hang /\ last.ret
    /\ last.pre.short_key
    /\ cache.work_key # last.pre.work_key
    /\ \E s \in DOMAIN cache.states : cache.states[s] = last.pre.states[s] + 1

\* C39 as stated: nothing but the state of the slot hit and the three
\* counters changes.
C39_LookupFrame_strict ==
    LookupFrameCall => LookupFrame({"states", "stats"})

=============================================================================
